---- MODULE Spec2Model ----
(***************************************************************************)
(* A model of gsearch-cli: the FSearch database decoder                    *)
(* (internal/db/database.go) and the search engine (internal/db/search.go).*)
(*                                                                         *)
(* Bytes are naturals 0..255, strings are sequences of bytes (the model    *)
(* keeps to ASCII, where a Go rune is one byte).  Offsets are 0-based as   *)
(* in the Go code; sequences are 1-based, so block[offset] of the code is  *)
(* blk[offset + 1] here.  A *Folder is modelled by the folder's index in   *)
(* db.Folders (the array is allocated once and never reordered), the nil   *)
(* pointer by Nil.                                                         *)
(*                                                                         *)
(* SpecLoad   : Load(file) for a bounded family of input files.            *)
(* SpecSearch : Search / SearchByPath / matches on databases of the shape  *)
(*              Load returns.                                              *)
(***************************************************************************)
EXTENDS Integers, Sequences, FiniteSets, TLC

VARIABLES
    file,          \* the bytes of the database file given to Load
    input,         \* the field values the file was assembled from
    pc,            \* position of Load, or of the search session
    err,           \* "ok", or the error Load returned
    IndexFlags,    \* db.IndexFlags
    Folders,       \* db.Folders
    Files,         \* db.Files
    SortedArrays,  \* db.SortedArrays, a function from array ID to array
    metadata,      \* db.metadata
    pos,           \* bytes of the file the reader has handed out
    block,         \* folderBlock / fileBlock of loadFolders / loadFiles
    offset,        \* offset of loadFolders / loadFiles
    previousName,  \* previousName of loadFolders / loadFiles
    loopI,         \* the loop counter i of loadFolders / loadFiles
    consumed,      \* offset at the end of each block's loop
    opts,          \* the arguments of the last search call
    result,        \* the value the last search call returned
    pathCache,     \* db.pathCache, a function from entry pointer to path
    goroutines,    \* the goroutines that call getFullPathCached
    parentWalks    \* per path resolved, the folders whose Parent was followed

vars == <<file, input, pc, err, IndexFlags, Folders, Files, SortedArrays,
          metadata, pos, block, offset, previousName, loopI, consumed,
          opts, result, pathCache, goroutines, parentWalks>>

dbVars == <<IndexFlags, Folders, Files, SortedArrays, metadata>>
loadVars == <<file, input, err, pos, block, offset, previousName, loopI, consumed>>
searchVars == <<opts, result>>
cacheVars == <<pathCache, goroutines, parentWalks>>

(***************************************************************************)
(* Bounds of the model.                                                    *)
(***************************************************************************)
MaxFolders == 2
MaxFiles == 1
MaxSorted == 2

(***************************************************************************)
(* Sequences and bytes.                                                    *)
(***************************************************************************)
Min(a, b) == IF a < b THEN a ELSE b

Take(s, n) == SubSeq(s, 1, n)

\* Go's s[lo:hi] and s[lo:]
Slice(s, lo, hi) == SubSeq(s, lo + 1, hi)

SliceFrom(s, lo) == SubSeq(s, lo + 1, Len(s))

RECURSIVE Flatten(_)
Flatten(ss) == IF ss = <<>> THEN <<>> ELSE Head(ss) \o Flatten(Tail(ss))

\* binary.LittleEndian.Uint32(b[off:]); the model's files keep every value
\* below 2^31.
Uint32(b, off) ==
    b[off + 1] + 256 * b[off + 2] + 65536 * b[off + 3] + 16777216 * b[off + 4]

\* binary.LittleEndian.Uint64(b[off:]); the high word is zero in every file
\* of the model.
Uint64(b, off) ==
    IF Uint32(b, off + 4) = 0
      THEN Uint32(b, off)
      ELSE Uint32(b, off) + Uint32(b, off + 4) * 65536 * 65536

\* int64(binary.LittleEndian.Uint64(b[off:])): two's complement
Int64(b, off) ==
    IF b[off + 8] >= 128
      THEN -(1 + Uint64([k \in 1..8 |-> 255 - b[off + k]], 0))
      ELSE Uint64(b, off)

(***************************************************************************)
(* Constants and types of database.go.                                     *)
(***************************************************************************)
MagicNumber == <<70, 83, 68, 66>>
MajorVersion == 0
MinorVersion == 9

IndexFlagName == 1
IndexFlagSize == 4
IndexFlagModificationTime == 8

EntryTypeFolder == 1
EntryTypeFile == 2

Nil == -1

\* the zero time.Time, and time.Unix(sec, 0)
ZeroTime == <<"zero", 0>>

UnixTime(sec) == <<"unix", sec>>

\* flags & bit != 0, for a single-bit mask
HasFlag(flags, bit) == (flags \div bit) % 2 = 1

\* &Folder{Entry: Entry{Index: i, Type: EntryTypeFolder}}
NewFolder(index) ==
    [Name |-> <<>>, Size |-> 0, MTime |-> ZeroTime, Parent |-> Nil,
     Index |-> index, Type |-> EntryTypeFolder]

\* &Entry{Index: i, Type: EntryTypeFile}
NewFile(index) ==
    [Name |-> <<>>, Size |-> 0, MTime |-> ZeroTime, Parent |-> Nil,
     Index |-> index, Type |-> EntryTypeFile]

(***************************************************************************)
(* The generator's byte writers (testDBWriter), used to assemble files.    *)
(***************************************************************************)
writeUint8(v) == <<v>>

writeUint16(v) == <<v % 256, v \div 256>>

writeUint32(v) ==
    <<v % 256, (v \div 256) % 256, (v \div 65536) % 256, v \div 16777216>>

writeUint64(v) == writeUint32(v) \o <<0, 0, 0, 0>>

writeInt64(v) ==
    IF v < 0
      THEN [k \in 1..8 |-> 255 - writeUint64(-v - 1)[k]]
      ELSE writeUint64(v)

(***************************************************************************)
(* The decoder: readHeader, readMetadata, readDeltaName and the bodies of  *)
(* the record loops of loadFolders and loadFiles.                          *)
(***************************************************************************)
\* readHeader, were the minor version compared for equality
readHeaderExactMinor(f) ==
    IF Len(f) < 4 THEN "TruncatedMagic"
    ELSE IF Take(f, 4) # MagicNumber THEN "BadMagic"
    ELSE IF Len(f) < 5 THEN "TruncatedMajorVersion"
    ELSE IF f[5] # MajorVersion THEN "UnsupportedMajorVersion"
    ELSE IF Len(f) < 6 THEN "TruncatedMinorVersion"
    ELSE IF f[6] # MinorVersion THEN "UnsupportedMinorVersion"
    ELSE "ok"

readHeader(f) ==
    IF Len(f) < 4 THEN "TruncatedMagic"
    ELSE IF Take(f, 4) # MagicNumber THEN "BadMagic"
    ELSE IF Len(f) < 5 THEN "TruncatedMajorVersion"
    ELSE IF f[5] # MajorVersion THEN "UnsupportedMajorVersion"
    ELSE IF Len(f) < 6 THEN "TruncatedMinorVersion"
    ELSE IF f[6] > MinorVersion THEN "UnsupportedMinorVersion"
    ELSE "ok"

NoMetadata ==
    [indexFlags |-> 0, numFolders |-> 0, numFiles |-> 0, folderBlockSize |-> 0,
     fileBlockSize |-> 0, numIndexes |-> 0, numExcludes |-> 0]

\* the fields are read one after the other from position p
readMetadata(f, p) ==
    LET n == Len(f)
        bad(e) == [err |-> e, meta |-> NoMetadata]
    IN  IF p + 8 > n THEN bad("TruncatedIndexFlags")
        ELSE IF p + 12 > n THEN bad("TruncatedNumFolders")
        ELSE IF p + 16 > n THEN bad("TruncatedNumFiles")
        ELSE IF p + 24 > n THEN bad("TruncatedFolderBlockSize")
        ELSE IF p + 32 > n THEN bad("TruncatedFileBlockSize")
        ELSE IF p + 36 > n THEN bad("TruncatedNumIndexes")
        ELSE IF p + 40 > n THEN bad("TruncatedNumExcludes")
        ELSE [err |-> "ok",
              meta |-> [indexFlags |-> Uint64(f, p),
                        numFolders |-> Uint32(f, p + 8),
                        numFiles |-> Uint32(f, p + 12),
                        folderBlockSize |-> Uint64(f, p + 16),
                        fileBlockSize |-> Uint64(f, p + 24),
                        numIndexes |-> Uint32(f, p + 32),
                        numExcludes |-> Uint32(f, p + 36)]]

\* readDeltaName, were the previous name never truncated at nameOffset
readDeltaNameKeepsPrevious(blk, off, prev) ==
    IF off + 2 > Len(blk)
      THEN [name |-> <<>>, offset |-> off, err |-> "TruncatedNameHeader"]
      ELSE LET nameLen == blk[off + 2]
               off2 == off + 2
           IN  IF off2 + nameLen > Len(blk)
                 THEN [name |-> <<>>, offset |-> off2, err |-> "TruncatedNameData"]
                 ELSE [name |-> prev \o Slice(blk, off2, off2 + nameLen),
                       offset |-> off2 + nameLen, err |-> "ok"]

readDeltaName(blk, off, prev) ==
    IF off + 2 > Len(blk)
      THEN [name |-> <<>>, offset |-> off, err |-> "TruncatedNameHeader"]
      ELSE LET nameOffset == blk[off + 1]
               nameLen == blk[off + 2]
               off2 == off + 2
               name == IF nameOffset < Len(prev) THEN Take(prev, nameOffset) ELSE prev
           IN  IF nameLen > 0
                 THEN IF off2 + nameLen > Len(blk)
                        THEN [name |-> <<>>, offset |-> off2, err |-> "TruncatedNameData"]
                        ELSE [name |-> name \o Slice(blk, off2, off2 + nameLen),
                              offset |-> off2 + nameLen, err |-> "ok"]
                 ELSE [name |-> name, offset |-> off2, err |-> "ok"]

\* "Set parent (if not self-reference)" of loadFolders
folderParent(parentIdx, folder, numFolders) ==
    IF parentIdx # folder.Index /\ parentIdx < numFolders
      THEN parentIdx
      ELSE folder.Parent

\* "Set parent" of loadFiles
fileParent(parentIdx, entry, numFolders) ==
    IF parentIdx < numFolders THEN parentIdx ELSE entry.Parent

\* the fields of a record after its name, were the mtime flag tested by
\* comparing the flags with its mask (flags == mask) and not by masking
readEntryFieldsFlagCompared(blk, off, flags, entry) ==
    LET hasSize == HasFlag(flags, IndexFlagSize)
        hasMTime == flags = IndexFlagModificationTime
        o1 == IF hasSize THEN off + 8 ELSE off
        o2 == IF hasMTime THEN o1 + 8 ELSE o1
        bad(e) == [err |-> e, offset |-> off, entry |-> entry, parentIdx |-> 0]
    IN  IF hasSize /\ off + 8 > Len(blk) THEN bad("TruncatedSize")
        ELSE IF hasMTime /\ o1 + 8 > Len(blk) THEN bad("TruncatedMTime")
        ELSE IF o2 + 4 > Len(blk) THEN bad("TruncatedParent")
        ELSE [err |-> "ok",
              offset |-> o2 + 4,
              entry |-> [entry EXCEPT
                           !.Size = IF hasSize THEN Int64(blk, off) ELSE @,
                           !.MTime = IF hasMTime THEN UnixTime(Int64(blk, o1)) ELSE @],
              parentIdx |-> Uint32(blk, o2)]

\* the fields of a record after its name: size, mtime, parent index
readEntryFields(blk, off, flags, entry) ==
    LET hasSize == HasFlag(flags, IndexFlagSize)
        hasMTime == HasFlag(flags, IndexFlagModificationTime)
        o1 == IF hasSize THEN off + 8 ELSE off
        o2 == IF hasMTime THEN o1 + 8 ELSE o1
        bad(e) == [err |-> e, offset |-> off, entry |-> entry, parentIdx |-> 0]
    IN  IF hasSize /\ off + 8 > Len(blk) THEN bad("TruncatedSize")
        ELSE IF hasMTime /\ o1 + 8 > Len(blk) THEN bad("TruncatedMTime")
        ELSE IF o2 + 4 > Len(blk) THEN bad("TruncatedParent")
        ELSE [err |-> "ok",
              offset |-> o2 + 4,
              entry |-> [entry EXCEPT
                           !.Size = IF hasSize THEN Int64(blk, off) ELSE @,
                           !.MTime = IF hasMTime THEN UnixTime(Int64(blk, o1)) ELSE @],
              parentIdx |-> Uint32(blk, o2)]

\* one iteration of the loop of loadFolders
loadFolderRecord(blk, off, prev, flags, folder, numFolders) ==
    LET bad(e) == [err |-> e, offset |-> off, name |-> prev, entry |-> folder]
    IN  IF off + 2 > Len(blk) THEN bad("TruncatedFolder")
        ELSE LET dn == readDeltaName(blk, off + 2, prev)
             IN  IF dn.err # "ok" THEN bad(dn.err)
                 ELSE LET fl == readEntryFields(blk, dn.offset, flags,
                                                [folder EXCEPT !.Name = dn.name])
                      IN  IF fl.err # "ok" THEN bad(fl.err)
                          ELSE [err |-> "ok", offset |-> fl.offset, name |-> dn.name,
                                entry |-> [fl.entry EXCEPT
                                    !.Parent = folderParent(fl.parentIdx, fl.entry,
                                                            numFolders)]]

\* one iteration of the loop of loadFiles
loadFileRecord(blk, off, prev, flags, index, numFolders) ==
    LET bad(e) == [err |-> e, offset |-> off, name |-> prev, entry |-> NewFile(index)]
        dn == readDeltaName(blk, off, prev)
    IN  IF dn.err # "ok" THEN bad(dn.err)
        ELSE LET fl == readEntryFields(blk, dn.offset, flags,
                                       [NewFile(index) EXCEPT !.Name = dn.name])
             IN  IF fl.err # "ok" THEN bad(fl.err)
                 ELSE [err |-> "ok", offset |-> fl.offset, name |-> dn.name,
                       entry |-> [fl.entry EXCEPT
                                    !.Parent = fileParent(fl.parentIdx, fl.entry,
                                                          numFolders)]]

\* the end of both loops, were the cursor not compared with the block size
blockSizeUnchecked(off, blk) == FALSE

\* the end of both loops: the cursor must stand at the end of the block
blockSizeMismatch(off, blk) == off # Len(blk)

\* db.SortedArrays[arrayID] = &SortedArray{...}
mapStore(m, key, value) ==
    [x \in DOMAIN m \cup {key} |-> IF x = key THEN value ELSE m[x]]

\* the loop of loadSortedArrays, from the array numbered k on
RECURSIVE loadSortedArraysLoop(_, _, _, _, _, _, _)
loadSortedArraysLoop(f, p, k, numSortedArrays, numFolders, numFiles, arrays) ==
    IF k >= numSortedArrays THEN [err |-> "ok", pos |-> p, arrays |-> arrays]
    ELSE IF p + 4 > Len(f) THEN [err |-> "TruncatedArrayID", pos |-> p, arrays |-> arrays]
    ELSE IF p + 4 + 4 * numFolders > Len(f)
           THEN [err |-> "TruncatedFolderIndices", pos |-> p, arrays |-> arrays]
    ELSE IF p + 4 + 4 * numFolders + 4 * numFiles > Len(f)
           THEN [err |-> "TruncatedFileIndices", pos |-> p, arrays |-> arrays]
    ELSE LET arrayID == Uint32(f, p)
             fo == p + 4
             fi == fo + 4 * numFolders
             array == [ID |-> arrayID,
                       Folders |-> [j \in 1..numFolders |-> Uint32(f, fo + 4 * (j - 1))],
                       Files |-> [j \in 1..numFiles |-> Uint32(f, fi + 4 * (j - 1))]]
         IN  loadSortedArraysLoop(f, fi + 4 * numFiles, k + 1, numSortedArrays,
                                  numFolders, numFiles, mapStore(arrays, arrayID, array))

loadSortedArrays(f, p, numFolders, numFiles, arrays) ==
    IF p + 4 > Len(f) THEN [err |-> "TruncatedNumSortedArrays", pos |-> p, arrays |-> arrays]
    ELSE loadSortedArraysLoop(f, p + 4, 0, Uint32(f, p), numFolders, numFiles, arrays)

(***************************************************************************)
(* The input files of SpecLoad.  A file is assembled from field values     *)
(* (input): header bytes, index flags, raw folder and file records (shared-*)
(* prefix byte p, suffix s, parent index), the IDs of the sorted arrays, a *)
(* deviation of one declared count or block size from what the file holds,*)
(* and a number of bytes cut from its end.                                 *)
(***************************************************************************)
\* size and mtime written for the record at position k (1-based) of a block
SampleSize(k) == IF k % 2 = 1 THEN -1 ELSE 1024 * k

SampleMTime(k) == k - 1

\* the bytes after a record's name
entryFieldBytes(r, k, flags) ==
    (IF HasFlag(flags, IndexFlagSize) THEN writeInt64(SampleSize(k)) ELSE <<>>)
    \o (IF HasFlag(flags, IndexFlagModificationTime)
          THEN writeInt64(SampleMTime(k)) ELSE <<>>)
    \o writeUint32(r.parent)

folderRecordBytes(r, k, flags) ==
    writeUint16(0) \o writeUint8(r.p) \o writeUint8(r.n) \o r.s
    \o entryFieldBytes(r, k, flags)

fileRecordBytes(r, k, flags) ==
    writeUint8(r.p) \o writeUint8(r.n) \o r.s \o entryFieldBytes(r, k, flags)

folderBlockBytes(in) ==
    Flatten([k \in 1..Len(in.folders) |-> folderRecordBytes(in.folders[k], k, in.flags)])

fileBlockBytes(in) ==
    Flatten([k \in 1..Len(in.files) |-> fileRecordBytes(in.files[k], k, in.flags)])

\* what the deviation adds to the declared value of a metadata field
Deviation(in, field) == IF in.dev[1] = field THEN in.dev[2] ELSE 0

declaredNumFolders(in) == Len(in.folders) + Deviation(in, "numFolders")

declaredNumFiles(in) == Len(in.files) + Deviation(in, "numFiles")

\* the k-th sorted array: its ID, then an index per declared folder and file
sortedArrayBytes(in, k) ==
    writeUint32(in.sorted[k])
    \o Flatten([j \in 1..declaredNumFolders(in) |-> writeUint32((j + k) % 7)])
    \o Flatten([j \in 1..declaredNumFiles(in) |-> writeUint32((j + 2 * k) % 7)])

fileBytes(in) ==
    LET whole ==
            in.magic \o writeUint8(in.major) \o writeUint8(in.minor)
            \o writeUint64(in.flags)
            \o writeUint32(declaredNumFolders(in))
            \o writeUint32(declaredNumFiles(in))
            \o writeUint64(Len(folderBlockBytes(in)) + Deviation(in, "folderBlockSize"))
            \o writeUint64(Len(fileBlockBytes(in)) + Deviation(in, "fileBlockSize"))
            \o writeUint32(0) \o writeUint32(0)
            \o folderBlockBytes(in) \o fileBlockBytes(in)
            \o writeUint32(Len(in.sorted))
            \o Flatten([k \in 1..Len(in.sorted) |-> sortedArrayBytes(in, k)])
    IN  Take(whole, Len(whole) - in.cut)

NoDeviation == <<"none", 0>>

\* a record: shared-prefix byte, length byte, suffix bytes, parent index
RawRecord(p, s, parent) == [p |-> p, n |-> Len(s), s |-> s, parent |-> parent]

\* the length of the longest common prefix of two names
RECURSIVE commonPrefix(_, _)
commonPrefix(a, b) ==
    IF a = <<>> \/ b = <<>> \/ Head(a) # Head(b) THEN 0
    ELSE 1 + commonPrefix(Tail(a), Tail(b))

\* the record writeDeltaName writes for name after previousName; nameOffset
\* and nameLen are uint8
writeDeltaName(name, prevName, parent) ==
    LET nameOffset == commonPrefix(name, prevName) % 256
        nameLen == (Len(name) - nameOffset) % 256
    IN  [p |-> nameOffset, n |-> nameLen,
         s |-> IF nameLen > 0 THEN SliceFrom(name, nameOffset) ELSE <<>>,
         parent |-> parent]

\* the records writeFolders / writeFiles write for entries <<name, parent>>
deltaRecords(entries) ==
    [k \in 1..Len(entries) |->
        writeDeltaName(entries[k][1],
                       IF k = 1 THEN <<>> ELSE entries[k - 1][1],
                       entries[k][2])]

\* a file as the generator lays it out, from the given flags and records
Layout(flags, folders, files) ==
    [magic |-> MagicNumber, major |-> MajorVersion, minor |-> MinorVersion,
     flags |-> flags, folders |-> folders, files |-> files, sorted |-> <<>>,
     dev |-> NoDeviation, cut |-> 0]

FolderChoices ==
    {RawRecord(d[1], d[2], par) :
        d \in {<<0, <<>>>>, <<1, <<98>>>>, <<2, <<97, 98>>>>}, par \in {0, 1}}

FileChoices ==
    {RawRecord(d[1], d[2], par) : d \in {<<0, <<97>>>>, <<1, <<98>>>>}, par \in {0, 1}}

PlainFolders(n) == [k \in 1..n |-> RawRecord(0, <<97>>, 0)]

PlainFiles(n) == [k \in 1..n |-> RawRecord(1, <<99>>, 0)]

\* every combination of records, laid out faithfully
RecordInputs ==
    {Layout(flags, folders, files) :
        flags \in {0, 13},
        folders \in UNION {[1..n -> FolderChoices] : n \in 0..MaxFolders},
        files \in UNION {[1..n -> FileChoices] : n \in 0..MaxFiles}}

\* index flags, including bits that name no stored field
FlagInputs ==
    {Layout(flags, PlainFolders(MaxFolders), PlainFiles(MaxFiles)) :
        flags \in {1, 2, 4, 5, 8, 9, 12, 16, 21, 29, 32, 64, 127}}

\* parent indices of more than one byte
ParentInputs ==
    {Layout(13, <<RawRecord(0, <<97>>, par)>>, <<RawRecord(0, <<98>>, par)>>) :
        par \in {0, 1, 255, 256, 65536}}

\* a declared count or block size off by one, in either direction
Deviations ==
    {<<field, by>> :
        field \in {"numFolders", "numFiles", "folderBlockSize", "fileBlockSize"},
        by \in {-1, 1}}

DeviantInputs ==
    {[Layout(flags, PlainFolders(nf), PlainFiles(ni)) EXCEPT !.dev = dev] :
        flags \in {0, 13}, nf \in 1..MaxFolders, ni \in 1..MaxFiles, dev \in Deviations}

\* the file cut short at every point of the header, the metadata and beyond
CutInputs ==
    {[Layout(13, PlainFolders(nf), PlainFiles(1)) EXCEPT !.cut = cut] :
        nf \in 0..1, cut \in 1..50}

\* every header: magic, major and minor version
HeaderInputs ==
    {[Layout(0, <<>>, <<>>) EXCEPT !.magic = magic, !.major = major, !.minor = minor] :
        magic \in {MagicNumber, <<70, 83, 68, 67>>, <<102, 115, 100, 98>>, <<0, 83, 68, 66>>},
        major \in {0, 1, 9},
        minor \in 0..(MinorVersion + 2) \cup {255}}

\* sorted arrays, with IDs that differ and IDs that repeat
SortedInputs ==
    {[Layout(0, PlainFolders(nf), PlainFiles(ni)) EXCEPT !.sorted = ids, !.cut = cut] :
        nf \in 0..MaxFolders, ni \in 0..MaxFiles,
        ids \in UNION {[1..n -> {1, 2}] : n \in 0..MaxSorted}, cut \in {0, 1}}

Inputs ==
    RecordInputs \cup FlagInputs \cup ParentInputs \cup DeviantInputs
    \cup CutInputs \cup HeaderInputs \cup SortedInputs

(***************************************************************************)
(* Load, step by step.                                                     *)
(***************************************************************************)
NoSearch == [op |-> "none"]

NoResult == [Files |-> <<>>, Folders |-> <<>>]

\* the zero value of db.pathCache: no key is stored
NoPaths == [key \in {} |-> <<>>]

InitLoad ==
    /\ input \in Inputs
    /\ file = fileBytes(input)
    /\ pc = "readHeader"
    /\ err = "ok"
    /\ IndexFlags = 0
    /\ Folders = <<>>
    /\ Files = <<>>
    /\ SortedArrays = <<>>
    /\ metadata = NoMetadata
    /\ pos = 0
    /\ block = <<>>
    /\ offset = 0
    /\ previousName = <<>>
    /\ loopI = 0
    /\ consumed = [folders |-> 0, files |-> 0]
    /\ opts = NoSearch
    /\ result = NoResult
    /\ pathCache = NoPaths
    /\ goroutines = <<>>
    /\ parentWalks = <<>>

\* Load returns (nil, e)
Fail(e) ==
    /\ pc' = "failed"
    /\ err' = e
    /\ UNCHANGED <<file, input, IndexFlags, Folders, Files, SortedArrays, metadata,
                   pos, block, offset, previousName, loopI, consumed, opts, result, cacheVars>>

ReadHeader ==
    /\ pc = "readHeader"
    /\ LET e == readHeader(file)
       IN  IF e # "ok" THEN Fail(e)
           ELSE /\ pc' = "readMetadata"
                /\ pos' = 6
                /\ UNCHANGED <<file, input, err, IndexFlags, Folders, Files,
                               SortedArrays, metadata, block, offset, previousName,
                               loopI, consumed, opts, result, cacheVars>>

\* readMetadata, then Load's pre-allocation of the folders
ReadMetadata ==
    /\ pc = "readMetadata"
    /\ LET m == readMetadata(file, pos)
       IN  IF m.err # "ok" THEN Fail(m.err)
           ELSE /\ pc' = "loadFolders"
                /\ pos' = pos + 40
                /\ IndexFlags' = m.meta.indexFlags
                /\ metadata' = m.meta
                /\ Folders' = [k \in 1..m.meta.numFolders |-> NewFolder(k - 1)]
                /\ UNCHANGED <<file, input, err, Files, SortedArrays, block, offset,
                               previousName, loopI, consumed, opts, result, cacheVars>>

\* loadFolders up to its loop: the whole block is read into memory
LoadFoldersBegin ==
    /\ pc = "loadFolders"
    /\ IF pos + metadata.folderBlockSize > Len(file) THEN Fail("TruncatedFolderBlock")
       ELSE /\ pc' = "folderLoop"
            /\ block' = Slice(file, pos, pos + metadata.folderBlockSize)
            /\ pos' = pos + metadata.folderBlockSize
            /\ offset' = 0
            /\ previousName' = <<>>
            /\ loopI' = 0
            /\ UNCHANGED <<file, input, err, IndexFlags, Folders, Files, SortedArrays,
                           metadata, consumed, opts, result, cacheVars>>

\* one iteration of the loop of loadFolders
LoadFolder ==
    /\ pc = "folderLoop"
    /\ loopI < metadata.numFolders
    /\ LET r == loadFolderRecord(block, offset, previousName, IndexFlags,
                                 Folders[loopI + 1], Len(Folders))
       IN  IF r.err # "ok" THEN Fail(r.err)
           ELSE /\ Folders' = [Folders EXCEPT ![loopI + 1] = r.entry]
                /\ previousName' = r.name
                /\ offset' = r.offset
                /\ loopI' = loopI + 1
                /\ UNCHANGED <<file, input, pc, err, IndexFlags, Files, SortedArrays,
                               metadata, pos, block, consumed, opts, result, cacheVars>>

\* loadFolders after its loop
LoadFoldersEnd ==
    /\ pc = "folderLoop"
    /\ loopI >= metadata.numFolders
    /\ IF blockSizeMismatch(offset, block) THEN Fail("FolderBlockSizeMismatch")
       ELSE /\ pc' = "loadFiles"
            /\ consumed' = [consumed EXCEPT !.folders = offset]
            /\ UNCHANGED <<file, input, err, IndexFlags, Folders, Files, SortedArrays,
                           metadata, pos, block, offset, previousName, loopI, opts,
                           result, cacheVars>>

\* a slot of db.Files that holds no entry yet
NilEntry == [Type |-> 0]

\* loadFiles up to its loop
LoadFilesBegin ==
    /\ pc = "loadFiles"
    /\ IF pos + metadata.fileBlockSize > Len(file) THEN Fail("TruncatedFileBlock")
       ELSE /\ pc' = "fileLoop"
            /\ block' = Slice(file, pos, pos + metadata.fileBlockSize)
            /\ pos' = pos + metadata.fileBlockSize
            /\ Files' = [k \in 1..metadata.numFiles |-> NilEntry]
            /\ offset' = 0
            /\ previousName' = <<>>
            /\ loopI' = 0
            /\ UNCHANGED <<file, input, err, IndexFlags, Folders, SortedArrays,
                           metadata, consumed, opts, result, cacheVars>>

\* one iteration of the loop of loadFiles
LoadFile ==
    /\ pc = "fileLoop"
    /\ loopI < metadata.numFiles
    /\ LET r == loadFileRecord(block, offset, previousName, IndexFlags, loopI,
                               Len(Folders))
       IN  IF r.err # "ok" THEN Fail(r.err)
           ELSE /\ Files' = [Files EXCEPT ![loopI + 1] = r.entry]
                /\ previousName' = r.name
                /\ offset' = r.offset
                /\ loopI' = loopI + 1
                /\ UNCHANGED <<file, input, pc, err, IndexFlags, Folders, SortedArrays,
                               metadata, pos, block, consumed, opts, result, cacheVars>>

\* loadFiles after its loop
LoadFilesEnd ==
    /\ pc = "fileLoop"
    /\ loopI >= metadata.numFiles
    /\ IF blockSizeMismatch(offset, block) THEN Fail("FileBlockSizeMismatch")
       ELSE /\ pc' = "loadSortedArrays"
            /\ consumed' = [consumed EXCEPT !.files = offset]
            /\ UNCHANGED <<file, input, err, IndexFlags, Folders, Files, SortedArrays,
                           metadata, pos, block, offset, previousName, loopI, opts,
                           result, cacheVars>>

\* loadSortedArrays, and Load's return of the database
LoadSortedArrays ==
    /\ pc = "loadSortedArrays"
    /\ LET r == loadSortedArrays(file, pos, metadata.numFolders, metadata.numFiles,
                                 SortedArrays)
       IN  IF r.err # "ok" THEN Fail(r.err)
           ELSE /\ pc' = "loaded"
                /\ SortedArrays' = r.arrays
                /\ pos' = r.pos
                /\ UNCHANGED <<file, input, err, IndexFlags, Folders, Files, metadata,
                               block, offset, previousName, loopI, consumed, opts,
                               result, cacheVars>>

NextLoad ==
    \/ ReadHeader
    \/ ReadMetadata
    \/ LoadFoldersBegin
    \/ LoadFolder
    \/ LoadFoldersEnd
    \/ LoadFilesBegin
    \/ LoadFile
    \/ LoadFilesEnd
    \/ LoadSortedArrays

SpecLoad == InitLoad /\ [][NextLoad]_vars

(***************************************************************************)
(* strings, unicode and regexp of the Go library, on ASCII strings.        *)
(***************************************************************************)
Star == 42
Question == 63
Underscore == 95
Slash == 47

\* unicode.ToLower of a code point: 'A'..'Z', and the Kelvin sign U+212A
\* (8490), whose lower case is 'k'; the long s U+017F (383) is lower case
toLowerRune(r) ==
    IF r \in 65..90 THEN r + 32 ELSE IF r = 8490 THEN 107 ELSE r

\* strings.ToLower.  The matcher's strings are sequences of code points.
ToLower(s) == [k \in 1..Len(s) |-> toLowerRune(s[k])]

\* the orbit of unicode.SimpleFold, which regexp follows under (?i):
\* 'S' -> 's' -> U+017F -> 'S' and 'K' -> 'k' -> U+212A -> 'K'
foldOrbit(r) ==
    IF r \in {83, 115, 383} THEN {83, 115, 383}
    ELSE IF r \in {75, 107, 8490} THEN {75, 107, 8490}
    ELSE IF r \in 65..90 THEN {r, r + 32}
    ELSE IF r \in 97..122 THEN {r, r - 32}
    ELSE {r}

\* the offsets at which sub occurs in s
Occurrences(s, sub) ==
    {k \in 0..(Len(s) - Len(sub)) : Slice(s, k, k + Len(sub)) = sub}

\* strings.Contains
Contains(s, sub) == Occurrences(s, sub) # {}

\* strings.Index
Index(s, sub) ==
    IF Occurrences(s, sub) = {} THEN -1
    ELSE CHOOSE k \in Occurrences(s, sub) : \A j \in Occurrences(s, sub) : k <= j

\* unicode.IsLetter(r) || unicode.IsDigit(r) || r == '_'
IsWordRune(r) ==
    r \in 65..90 \/ r \in 97..122 \/ r \in {383, 8490} \/ r \in 48..57 \/ r = Underscore

\* regexp.Compile, for the patterns convertWildcardToRegex writes: an optional
\* (?i), then ^, $, ., .*, an escaped character or a plain character.  The
\* other operators of the regexp syntax (never written unescaped) are refused.
RECURSIVE regexpParse(_, _, _)
regexpParse(p, k, acc) ==
    IF k > Len(p) THEN [err |-> FALSE, tokens |-> acc]
    ELSE LET c == p[k]
         IN  IF c = 94 THEN regexpParse(p, k + 1, Append(acc, <<"bol", 0>>))
             ELSE IF c = 36 THEN regexpParse(p, k + 1, Append(acc, <<"eol", 0>>))
             ELSE IF c = 46
               THEN IF k < Len(p) /\ p[k + 1] = Star
                      THEN regexpParse(p, k + 2, Append(acc, <<"star", 0>>))
                      ELSE regexpParse(p, k + 1, Append(acc, <<"any", 0>>))
             ELSE IF c = 92
               THEN IF k = Len(p) THEN [err |-> TRUE, tokens |-> <<>>]
                    ELSE regexpParse(p, k + 2, Append(acc, <<"lit", p[k + 1]>>))
             ELSE IF c \in {Star, Question, 43, 40, 41, 91, 93, 123, 125, 124}
               THEN [err |-> TRUE, tokens |-> <<>>]
             ELSE regexpParse(p, k + 1, Append(acc, <<"lit", c>>))

regexpCompile(p) ==
    IF Len(p) >= 4 /\ Take(p, 4) = <<40, 63, 105, 41>>
      THEN [fold |-> TRUE] @@ regexpParse(SliceFrom(p, 4), 1, <<>>)
      ELSE [fold |-> FALSE] @@ regexpParse(p, 1, <<>>)

\* whether the tokens from the k-th on match text from offset x on
RECURSIVE regexpMatchFrom(_, _, _, _)
regexpMatchFrom(re, k, text, x) ==
    IF k > Len(re.tokens) THEN TRUE
    ELSE LET tok == re.tokens[k]
             more == x < Len(text)
         IN  CASE tok[1] = "bol" -> x = 0 /\ regexpMatchFrom(re, k + 1, text, x)
               [] tok[1] = "eol" -> x = Len(text) /\ regexpMatchFrom(re, k + 1, text, x)
               [] tok[1] = "any" ->
                    \* without the s flag, . matches any character but '\n'
                    more /\ text[x + 1] # 10 /\ regexpMatchFrom(re, k + 1, text, x + 1)
               [] tok[1] = "star" ->
                    \/ regexpMatchFrom(re, k + 1, text, x)
                    \/ more /\ text[x + 1] # 10 /\ regexpMatchFrom(re, k, text, x + 1)
               [] tok[1] = "lit" ->
                    /\ more
                    /\ IF re.fold
                         THEN text[x + 1] \in foldOrbit(tok[2])
                         ELSE text[x + 1] = tok[2]
                    /\ regexpMatchFrom(re, k + 1, text, x + 1)

\* re.MatchString(text)
MatchString(re, text) == \E x \in 0..Len(text) : regexpMatchFrom(re, 1, text, x)

(***************************************************************************)
(* The matcher of search.go.                                               *)
(***************************************************************************)
\* hasWildcards, were it to look for '*' alone
hasWildcardsStarOnly(s) == Contains(s, <<Star>>)

hasWildcards(s) == Contains(s, <<Star>>) \/ Contains(s, <<Question>>)

RegexSpecials == {46, 94, 36, 43, 40, 41, 91, 93, 123, 125, 92, 124}

RECURSIVE convertChars(_)
convertChars(pattern) ==
    IF pattern = <<>> THEN <<>>
    ELSE LET char == Head(pattern)
         IN  (IF char = Star THEN <<46, 42>>
              ELSE IF char = Question THEN <<46>>
              ELSE IF char \in RegexSpecials THEN <<92, char>>
              ELSE <<char>>) \o convertChars(Tail(pattern))

convertWildcardToRegex(pattern) == <<94>> \o convertChars(pattern) \o <<36>>

\* the outcome of a call: the value returned, or a run-time panic
Returns(v) == [panic |-> FALSE, ret |-> v]

Panics == [panic |-> TRUE, ret |-> FALSE]

\* matchWholeWord, were it to look at the first occurrence alone
matchWholeWordFirstOnly(text, query, idx) ==
    LET found == Index(text, query)
    IN  Returns(/\ found # -1
                /\ (found = 0 \/ ~IsWordRune(text[found]))
                /\ (found + Len(query) = Len(text)
                    \/ ~IsWordRune(text[found + Len(query) + 1])))

\* matchWholeWord, were the scan resumed behind the occurrence (idx = pos +
\* len(query) + 1) and not one byte after its start
RECURSIVE matchWholeWordPastQuery(_, _, _)
matchWholeWordPastQuery(text, query, idx) ==
    IF idx > Len(text) THEN Panics
    ELSE LET found == Index(SliceFrom(text, idx), query)
             at == found + idx
             before == at = 0 \/ ~IsWordRune(text[at])
             after == at + Len(query) = Len(text)
                      \/ ~IsWordRune(text[at + Len(query) + 1])
         IN  IF found = -1 THEN Returns(FALSE)
             ELSE IF before /\ after THEN Returns(TRUE)
             ELSE matchWholeWordPastQuery(text, query, at + Len(query) + 1)

\* the loop of matchWholeWord, entered with the given idx
RECURSIVE matchWholeWordFrom(_, _, _)
matchWholeWordFrom(text, query, idx) ==
    IF idx > Len(text) THEN Panics      \* text[idx:] is out of range
    ELSE LET found == Index(SliceFrom(text, idx), query)
             at == found + idx
             before == at = 0 \/ ~IsWordRune(text[at])
             after == at + Len(query) = Len(text)
                      \/ ~IsWordRune(text[at + Len(query) + 1])
         IN  IF found = -1 THEN Returns(FALSE)
             ELSE IF before /\ after THEN Returns(TRUE)
             ELSE matchWholeWordFrom(text, query, at + 1)

matchWholeWord(text, query) == matchWholeWordFrom(text, query, 0)

matches(text, query, o) ==
    IF hasWildcards(query)
      THEN LET regexPattern == convertWildcardToRegex(query)
               re == IF o.CaseSensitive
                       THEN regexpCompile(regexPattern)
                       ELSE regexpCompile(<<40, 63, 105, 41>> \o regexPattern)
           IN  IF re.err
                 THEN IF ~o.CaseSensitive
                        THEN Returns(Contains(ToLower(text), ToLower(query)))
                        ELSE Returns(Contains(text, query))
                 ELSE Returns(MatchString(re, text))
      ELSE LET text2 == IF ~o.CaseSensitive THEN ToLower(text) ELSE text
               query2 == IF ~o.CaseSensitive THEN ToLower(query) ELSE query
           IN  IF o.MatchWholeWord
                 THEN matchWholeWord(text2, query2)
                 ELSE Returns(Contains(text2, query2))

(***************************************************************************)
(* Search, GetFullPath and SearchByPath.  A result holds pointers to the   *)
(* database's entries: here the entries' indices.                          *)
(***************************************************************************)
\* Search, were the empty query not returned for at once
emptyQueryScanned(o) == FALSE

emptyQuery(o) == o.Query = <<>>

\* the loop over db.Folders, were it entered whatever opts.SearchInFolders
searchInFoldersAlways(o) == TRUE

\* whether the loop over db.Files and the loop over db.Folders are entered
searchInFiles(o) == o.SearchInFiles

searchInFolders(o) == o.SearchInFolders

\* the break of the loop over db.Files, were a MaxResults of 0 a bound
fileLimitReachedAtZero(o, numFiles) == numFiles >= o.MaxResults

\* the break of the loop over db.Files
fileLimitReached(o, numFiles) == o.MaxResults > 0 /\ numFiles >= o.MaxResults

\* the break of the loop over db.Folders
folderLimitReached(o, numFolders, numFiles) ==
    o.MaxResults > 0 /\ numFolders + numFiles >= o.MaxResults

\* the loop over db.Files, from the k-th file on
RECURSIVE searchFiles(_, _, _, _)
searchFiles(files, k, o, found) ==
    IF k > Len(files) THEN Returns(found)
    ELSE LET m == matches(files[k].Name, o.Query, o)
         IN  IF m.panic THEN Panics
             ELSE IF ~m.ret THEN searchFiles(files, k + 1, o, found)
             ELSE IF fileLimitReached(o, Len(found) + 1)
                    THEN Returns(Append(found, files[k].Index))
             ELSE searchFiles(files, k + 1, o, Append(found, files[k].Index))

\* the loop over db.Folders, from the k-th folder on
RECURSIVE searchFolders(_, _, _, _, _)
searchFolders(folders, k, o, found, numFiles) ==
    IF k > Len(folders) THEN Returns(found)
    ELSE LET m == matches(folders[k].Name, o.Query, o)
         IN  IF m.panic THEN Panics
             ELSE IF ~m.ret THEN searchFolders(folders, k + 1, o, found, numFiles)
             ELSE IF folderLimitReached(o, Len(found) + 1, numFiles)
                    THEN Returns(Append(found, folders[k].Index))
             ELSE searchFolders(folders, k + 1, o, Append(found, folders[k].Index),
                                numFiles)

Search(files, folders, o) ==
    IF emptyQuery(o) THEN Returns([Files |-> <<>>, Folders |-> <<>>])
    ELSE LET fs == IF searchInFiles(o) THEN searchFiles(files, 1, o, <<>>)
                   ELSE Returns(<<>>)
         IN  IF fs.panic THEN Panics
             ELSE LET ds == IF searchInFolders(o)
                              THEN searchFolders(folders, 1, o, <<>>, Len(fs.ret))
                              ELSE Returns(<<>>)
                  IN  IF ds.panic THEN Panics
                      ELSE Returns([Files |-> fs.ret, Folders |-> ds.ret])

\* the parent walk of Entry.GetFullPath.  A walk that has appended more
\* names than there are folders is on a cycle and never ends.
RECURSIVE walkParents(_, _, _)
walkParents(folders, parent, components) ==
    IF parent = Nil THEN [diverges |-> FALSE, isRoot |-> FALSE, components |-> components]
    ELSE IF folders[parent + 1].Name = <<>>
      THEN [diverges |-> FALSE, isRoot |-> TRUE, components |-> components]
    ELSE IF Len(components) > Len(folders)
      THEN [diverges |-> TRUE, isRoot |-> FALSE, components |-> components]
    ELSE walkParents(folders, folders[parent + 1].Parent,
                     Append(components, folders[parent + 1].Name))

\* the components written in reverse order, a '/' before all but the first
RECURSIVE joinReversed(_, _)
joinReversed(components, k) ==
    IF k = 0 THEN <<>>
    ELSE (IF k < Len(components) THEN <<Slash>> ELSE <<>>)
         \o components[k] \o joinReversed(components, k - 1)

\* Entry.GetFullPath: the path, or that the call does not return
GetFullPath(e, folders) ==
    IF e.Parent = Nil
      THEN [diverges |-> FALSE, path |-> IF e.Name = <<>> THEN <<Slash>> ELSE e.Name]
      ELSE LET w == walkParents(folders, e.Parent, <<e.Name>>)
           IN  [diverges |-> w.diverges,
                path |-> (IF w.isRoot THEN <<Slash>> ELSE <<>>)
                         \o joinReversed(w.components, Len(w.components))]

\* the folders whose Parent the walk of Entry.GetFullPath follows
\* (parent = parent.Parent), in the order of the walk
RECURSIVE walkedParents(_, _, _)
walkedParents(folders, parent, walked) ==
    IF parent = Nil THEN walked
    ELSE IF folders[parent + 1].Name = <<>> THEN walked
    ELSE IF Len(walked) > Len(folders) THEN walked
    ELSE walkedParents(folders, folders[parent + 1].Parent, Append(walked, parent))

\* the key of an entry in db.pathCache: the pointer to the Entry
entryKey(e) == <<"*Entry", e.Type, e.Index>>

\* one call of Entry.GetFullPath, as the parent-walk step sees it
parentWalk(e, folders) ==
    [entry |-> entryKey(e), parent |-> e.Parent,
     from |-> IF e.Parent = Nil THEN <<>> ELSE walkedParents(folders, e.Parent, <<>>)]

\* the test of SearchByPath, were the path never lowered
pathMatchesExactCase(path, pattern, caseSensitive, useWildcard, re) ==
    IF useWildcard THEN MatchString(re, path) ELSE Contains(path, pattern)

\* the test SearchByPath applies to the path of each entry
pathMatches(path, pattern, caseSensitive, useWildcard, re) ==
    IF useWildcard THEN MatchString(re, path)
    ELSE IF ~caseSensitive THEN Contains(ToLower(path), pattern)
    ELSE Contains(path, pattern)

\* the indices of the entries SearchByPath keeps, in array order
RECURSIVE searchPaths(_, _, _, _, _, _, _)
searchPaths(entries, k, folders, pattern, caseSensitive, useWildcard, re) ==
    IF k > Len(entries) THEN <<>>
    ELSE (IF pathMatches(GetFullPath(entries[k], folders).path, pattern,
                         caseSensitive, useWildcard, re)
            THEN <<entries[k].Index>> ELSE <<>>)
         \o searchPaths(entries, k + 1, folders, pattern, caseSensitive, useWildcard, re)

SearchByPath(files, folders, pattern, caseSensitive) ==
    LET regexPattern == convertWildcardToRegex(pattern)
        re == IF caseSensitive
                THEN regexpCompile(regexPattern)
                ELSE regexpCompile(<<40, 63, 105, 41>> \o regexPattern)
        useWildcard == hasWildcards(pattern) /\ ~re.err
        pattern2 == IF ~caseSensitive /\ ~useWildcard THEN ToLower(pattern) ELSE pattern
    IN  [Files |-> searchPaths(files, 1, folders, pattern2, caseSensitive, useWildcard, re),
         Folders |-> searchPaths(folders, 1, folders, pattern2, caseSensitive,
                                 useWildcard, re)]

\* the calls of GetFullPath SearchByPath makes: every file, then every folder
searchByPathWalks(files, folders) ==
    [k \in 1..Len(files) |-> parentWalk(files[k], folders)]
    \o [k \in 1..Len(folders) |-> parentWalk(folders[k], folders)]

\* SearchByPath resolves the path of every file and folder
somePathDiverges(files, folders) ==
    \/ \E k \in 1..Len(files) : GetFullPath(files[k], folders).diverges
    \/ \E k \in 1..Len(folders) : GetFullPath(folders[k], folders).diverges

(***************************************************************************)
(* The databases of SpecSearch: files written by the generator's writer    *)
(* from entries <<name, parent index>>, then loaded.                       *)
(***************************************************************************)
\* createTestData: "", home, user, Documents, Downloads and
\* test.txt, readme.txt, document.pdf, test.go, file.zip
FixtureFolders ==
    << <<<<>>, 0>>,
       <<<<104, 111, 109, 101>>, 0>>,
       <<<<117, 115, 101, 114>>, 1>>,
       <<<<68, 111, 99, 117, 109, 101, 110, 116, 115>>, 0>>,
       <<<<68, 111, 119, 110, 108, 111, 97, 100, 115>>, 0>> >>

FixtureFiles ==
    << <<<<116, 101, 115, 116, 46, 116, 120, 116>>, 2>>,
       <<<<114, 101, 97, 100, 109, 101, 46, 116, 120, 116>>, 2>>,
       <<<<100, 111, 99, 117, 109, 101, 110, 116, 46, 112, 100, 102>>, 3>>,
       <<<<116, 101, 115, 116, 46, 103, 111>>, 3>>,
       <<<<102, 105, 108, 101, 46, 122, 105, 112>>, 4>> >>

\* "a", "ab", "B"
SearchNames == {<<97>>, <<97, 98>>, <<66>>}

\* folders in a chain below the first, files in the last folder
ChainFolders(names) ==
    [k \in 1..Len(names) |-> <<names[k], IF k = 1 THEN 0 ELSE k - 2>>]

FilesIn(names, parent) == [k \in 1..Len(names) |-> <<names[k], parent>>]

\* indexFlags of CreateTestDatabase
FixtureFlags == IndexFlagName + IndexFlagSize + IndexFlagModificationTime

SearchInputs ==
    {Layout(FixtureFlags, deltaRecords(FixtureFolders), deltaRecords(FixtureFiles))}
    \cup {Layout(0, deltaRecords(ChainFolders(dn)),
                 deltaRecords(FilesIn(fn, Len(dn) - 1))) :
            dn \in UNION {[1..n -> SearchNames] : n \in 1..MaxFolders},
            fn \in UNION {[1..n -> SearchNames] : n \in 0..MaxFiles}}
    \* an empty-named root; the same with a file whose name is a line feed;
    \* two folders that are each other's parent; a file whose parent index
    \* names no folder
    \cup {Layout(0, deltaRecords(<< <<<<>>, 0>>, <<<<97>>, 0>> >>),
                 deltaRecords(<< <<<<97>>, 1>> >>)),
          Layout(0, deltaRecords(<< <<<<>>, 0>>, <<<<97>>, 0>> >>),
                 deltaRecords(<< <<<<10>>, 1>> >>)),
          Layout(0, deltaRecords(<< <<<<97>>, 1>>, <<<<98>>, 0>> >>),
                 deltaRecords(<< <<<<97>>, 0>> >>)),
          Layout(0, deltaRecords(<< <<<<97>>, 0>> >>),
                 deltaRecords(<< <<<<97>>, 7>> >>))}

\* "", "a", "B", "o", "a*", "test"
SearchQueries == {<<>>, <<97>>, <<66>>, <<111>>, <<97, 42>>, <<116, 101, 115, 116>>}

\* "", "/", "a", "B", "/a/*", "/home/*"
PathPatterns ==
    {<<>>, <<47>>, <<97>>, <<66>>, <<47, 97, 47, 42>>,
     <<47, 104, 111, 109, 101, 47, 42>>}

MaxResultsBound == 2

InitSearch ==
    /\ input \in SearchInputs
    /\ file = fileBytes(input)
    /\ pc = "readHeader"
    /\ err = "ok"
    /\ IndexFlags = 0
    /\ Folders = <<>>
    /\ Files = <<>>
    /\ SortedArrays = <<>>
    /\ metadata = NoMetadata
    /\ pos = 0
    /\ block = <<>>
    /\ offset = 0
    /\ previousName = <<>>
    /\ loopI = 0
    /\ consumed = [folders |-> 0, files |-> 0]
    /\ opts = NoSearch
    /\ result = NoResult
    /\ pathCache = NoPaths
    /\ goroutines = <<>>
    /\ parentWalks = <<>>

\* db.Search(opts) on the loaded database; opts and result keep the call's
\* arguments and the value it returned
SearchCall ==
    /\ pc = "loaded"
    /\ \E q \in SearchQueries, cs \in BOOLEAN, ww \in BOOLEAN,
          sf \in BOOLEAN, sd \in BOOLEAN, m \in 0..MaxResultsBound :
          LET o == [op |-> "Search", Query |-> q, CaseSensitive |-> cs,
                    MatchWholeWord |-> ww, SearchInFiles |-> sf,
                    SearchInFolders |-> sd, MaxResults |-> m]
              r == Search(Files, Folders, o)
          IN  /\ opts' = o
              /\ IF r.panic
                   THEN pc' = "panicked" /\ result' = NoResult
                   ELSE pc' = "returned" /\ result' = r.ret
    /\ UNCHANGED <<dbVars, loadVars, cacheVars>>

\* db.SearchByPath(pattern, caseSensitive) on the loaded database
SearchByPathCall ==
    /\ pc = "loaded"
    /\ \E pattern \in PathPatterns, cs \in BOOLEAN :
          /\ opts' = [op |-> "SearchByPath", Query |-> pattern, CaseSensitive |-> cs]
          /\ IF somePathDiverges(Files, Folders)
               THEN /\ pc' = "diverged"
                    /\ result' = NoResult
                    /\ UNCHANGED parentWalks
               ELSE /\ pc' = "returned"
                    /\ result' = SearchByPath(Files, Folders, pattern, cs)
                    /\ parentWalks' = searchByPathWalks(Files, Folders)
    /\ UNCHANGED <<dbVars, loadVars, pathCache, goroutines>>

\* the values of sortField
sortFields == {"name", "path", "size", "mtime"}

\* a < b on Go strings: byte by byte, a proper prefix first
RECURSIVE stringLess(_, _)
stringLess(a, b) ==
    IF b = <<>> THEN FALSE
    ELSE IF a = <<>> THEN TRUE
    ELSE IF a[1] # b[1] THEN a[1] < b[1]
    ELSE stringLess(Tail(a), Tail(b))

\* t.Before(u); the zero Time is before every time.Unix(sec, 0) with sec >= 0
timeBefore(t, u) ==
    IF t = ZeroTime THEN u # ZeroTime
    ELSE u # ZeroTime /\ t[2] < u[2]

\* the less function sortResults hands to sort.Slice for result.Files
lessFiles(field, a, b, folders) ==
    CASE field = "name" -> stringLess(a.Name, b.Name)
      [] field = "path" -> stringLess(GetFullPath(a, folders).path, GetFullPath(b, folders).path)
      [] field = "size" -> a.Size < b.Size
      [] field = "mtime" -> timeBefore(a.MTime, b.MTime)

\* the less function sortResults hands to sort.Slice for result.Folders
lessFolders(field, a, b, folders) ==
    CASE field = "name" -> stringLess(a.Name, b.Name)
      [] field = "path" -> stringLess(GetFullPath(a, folders).path, GetFullPath(b, folders).path)
      [] field = "size" -> stringLess(a.Name, b.Name)
      [] field = "mtime" -> timeBefore(a.MTime, b.MTime)

\* what sort.Slice may leave in a slice of entry pointers: a permutation in
\* which no element is less than one before it (the sort is not stable, so
\* the order of elements that compare equal is any)
sortSlice(slice, less) ==
    {s \in [1..Len(slice) -> {slice[k] : k \in 1..Len(slice)}] :
        /\ \A i, j \in 1..Len(s) : i # j => s[i] # s[j]
        /\ \A i, j \in 1..Len(s) : i < j => <<s[j], s[i]>> \notin less}

\* the pairs <<x, y>> of pointers of a slice for which less holds
lessPairs(slice, entries, field, folders, isFolders) ==
    {xy \in {slice[k] : k \in 1..Len(slice)} \X {slice[k] : k \in 1..Len(slice)} :
        IF isFolders
          THEN lessFolders(field, entries[xy[1] + 1], entries[xy[2] + 1], folders)
          ELSE lessFiles(field, entries[xy[1] + 1], entries[xy[2] + 1], folders)}

\* sort.Slice calls less once the slice has two elements; by path, less calls
\* GetFullPath, which does not return for an entry below a cycle of parents
sortDiverges(res, field, files, folders) ==
    /\ field = "path"
    /\ \/ /\ Len(res.Files) >= 2
          /\ \E k \in 1..Len(res.Files) : GetFullPath(files[res.Files[k] + 1], folders).diverges
       \/ /\ Len(res.Folders) >= 2
          /\ \E k \in 1..Len(res.Folders) : GetFullPath(folders[res.Folders[k] + 1], folders).diverges

\* the results sortResults may leave: result.Files and result.Folders are
\* sorted one after the other, each on its own
sortResults(res, field, files, folders) ==
    {[Files |-> f, Folders |-> d] :
        f \in sortSlice(res.Files, lessPairs(res.Files, files, field, folders, FALSE)),
        d \in sortSlice(res.Folders, lessPairs(res.Folders, folders, field, folders, TRUE))}

\* what printText, printJSON and printCSV write, in order: the folders of the
\* result, then its files
printResults(res, files, folders) ==
    [k \in 1..Len(res.Folders) |-> folders[res.Folders[k] + 1]]
    \o [k \in 1..Len(res.Files) |-> files[res.Files[k] + 1]]

\* sortResults, were it to sort the arrays of the database themselves
SortCallOnDatabase ==
    /\ pc = "returned"
    /\ \E field \in sortFields :
          /\ opts' = [op |-> "sortResults", field |-> field, search |-> opts]
          /\ \E s \in sortSlice([k \in 1..Len(Files) |-> k - 1],
                                lessPairs([k \in 1..Len(Files) |-> k - 1], Files,
                                          field, Folders, FALSE)) :
                Files' = [k \in 1..Len(Files) |-> Files[s[k] + 1]]
          /\ result' = result
          /\ pc' = "sorted"
    /\ UNCHANGED <<IndexFlags, Folders, SortedArrays, metadata, loadVars, cacheVars>>

\* main: sortResults(result, sortFieldVal) on the result of the search
SortCall ==
    /\ pc = "returned"
    /\ \E field \in sortFields :
          /\ opts' = [op |-> "sortResults", field |-> field, search |-> opts]
          /\ IF sortDiverges(result, field, Files, Folders)
               THEN /\ pc' = "diverged"
                    /\ result' = NoResult
               ELSE /\ pc' = "sorted"
                    /\ result' \in sortResults(result, field, Files, Folders)
    /\ UNCHANGED <<dbVars, loadVars, cacheVars>>

\* the caller is done with the result; the database serves the next call
Return ==
    /\ pc \in {"returned", "sorted"}
    /\ pc' = "loaded"
    /\ opts' = NoSearch
    /\ result' = NoResult
    /\ parentWalks' = <<>>
    /\ UNCHANGED <<dbVars, loadVars, pathCache, goroutines>>

NextSearch ==
    \/ NextLoad
    \/ SearchCall
    \/ SearchByPathCall
    \/ SortCall
    \/ Return

SpecSearch == InitSearch /\ [][NextSearch]_vars

(***************************************************************************)
(* SpecRound: the generator writes test data, Load reads the file back.    *)
(* An entry of the data is <<name, parentIdx>>; its size and the seconds   *)
(* of its mtime are those the writer model puts at its position, and nsec  *)
(* is the part of the mtime below the second (time.Now() has one).         *)
(***************************************************************************)
\* a name of 256 bytes
LongName == [k \in 1..256 |-> 97]

\* "a", "ab", "b"
RoundNames == {<<97>>, <<97, 98>>, <<98>>}

\* folders whose parent is themselves (a root) or an earlier folder
RoundFolders(n) ==
    {ds \in [1..n -> RoundNames \X (0..(n - 1))] : \A k \in 1..n : ds[k][2] <= k - 1}

RoundFiles(n, numFolders) == [1..n -> RoundNames \X (0..(numFolders - 1))]

\* testData: the folders and files of createTestData, or others
testData(ds, fs, nsec) ==
    [folders |-> [k \in 1..Len(ds) |->
                    [name |-> ds[k][1], size |-> SampleSize(k),
                     mtime |-> [sec |-> SampleMTime(k), nsec |-> nsec],
                     parentIdx |-> ds[k][2]]],
     files |-> [k \in 1..Len(fs) |->
                    [name |-> fs[k][1], size |-> SampleSize(k),
                     mtime |-> [sec |-> SampleMTime(k), nsec |-> nsec],
                     parentIdx |-> fs[k][2]]]]

RoundData ==
    {testData(ds, fs, nsec) :
        ds \in UNION {RoundFolders(n) : n \in 1..MaxFolders},
        fs \in UNION {RoundFiles(n, 1) : n \in 0..MaxFiles},
        nsec \in {0, 1}}
    \cup {testData(ds, fs, 0) :
            ds \in RoundFolders(MaxFolders),
            fs \in UNION {RoundFiles(n, MaxFolders) : n \in 1..MaxFiles}}
    \cup {testData(FixtureFolders, FixtureFiles, 0),
          testData(<< <<<<>>, 0>>, <<LongName, 0>> >>, <<>>, 0)}

\* CreateTestDatabase, for the given data and index flags
CreateTestDatabase(data, flags) ==
    Layout(flags,
           deltaRecords([k \in 1..Len(data.folders) |->
                           <<data.folders[k].name, data.folders[k].parentIdx>>]),
           deltaRecords([k \in 1..Len(data.files) |->
                           <<data.files[k].name, data.files[k].parentIdx>>]))

InitRound ==
    /\ \E data \in RoundData, flags \in {IndexFlagName, FixtureFlags} :
          input = CreateTestDatabase(data, flags) @@ [data |-> data]
    /\ file = fileBytes(input)
    /\ pc = "readHeader"
    /\ err = "ok"
    /\ IndexFlags = 0
    /\ Folders = <<>>
    /\ Files = <<>>
    /\ SortedArrays = <<>>
    /\ metadata = NoMetadata
    /\ pos = 0
    /\ block = <<>>
    /\ offset = 0
    /\ previousName = <<>>
    /\ loopI = 0
    /\ consumed = [folders |-> 0, files |-> 0]
    /\ opts = NoSearch
    /\ result = NoResult
    /\ pathCache = NoPaths
    /\ goroutines = <<>>
    /\ parentWalks = <<>>

SpecRound == InitRound /\ [][NextLoad]_vars

(***************************************************************************)
(* SpecPath: a database is loaded, then paths are resolved on it: one call *)
(* of Entry.GetFullPath, and goroutines that each call getFullPathCached.  *)
(* A step of a goroutine is one operation on db.pathCache (a sync.Map,     *)
(* whose Load and Store are atomic).                                       *)
(***************************************************************************)
\* the goroutines that call getFullPathCached at the same time
GoroutineIds == {1, 2}

\* the key e.Parent makes in db.pathCache.Load(e.Parent): a *Folder, which
\* as a map key differs from every *Entry
folderKey(index) == <<"*Folder", EntryTypeFolder, index>>

\* db.pathCache.Load(key)
cacheLoad(cache, key) ==
    IF key \in DOMAIN cache THEN [ok |-> TRUE, value |-> cache[key]]
    ELSE [ok |-> FALSE, value |-> <<>>]

\* db.pathCache.Store(key, value), were it to drop the other keys
cacheStoreAlone(cache, key, value) == [x \in {key} |-> value]

\* db.pathCache.Store(key, value)
cacheStore(cache, key, value) ==
    [x \in DOMAIN cache \cup {key} |-> IF x = key THEN value ELSE cache[x]]

\* the path of an entry without parent, were it always to start with "/"
rootPathSlash(e) == <<Slash>> \o e.Name

\* the path getFullPathCached gives an entry without parent
rootPath(e) == IF e.Name = <<>> THEN <<Slash>> ELSE e.Name

\* the path getFullPathCached builds from the parent's path
childPath(parentPath, e) ==
    IF parentPath = <<Slash>> THEN <<Slash>> \o e.Name
    ELSE parentPath \o <<Slash>> \o e.Name

\* getFullPathCached(e) run alone on an empty cache: the path, or that the
\* recursion does not end (depth counts the calls above this one)
RECURSIVE getFullPathCached(_, _, _)
getFullPathCached(e, folders, depth) ==
    IF e.Parent = Nil THEN [diverges |-> FALSE, path |-> rootPath(e)]
    ELSE IF depth > Len(folders) THEN [diverges |-> TRUE, path |-> <<>>]
    ELSE LET parent == getFullPathCached(folders[e.Parent + 1], folders, depth + 1)
         IN  [diverges |-> parent.diverges, path |-> childPath(parent.path, e)]

\* a call of getFullPathCached(e) that has not yet run its first statement
NewFrame(e) == [e |-> e, at |-> "load", parentPath |-> <<>>]

\* go db.getFullPathCached(e)
NewGoroutine(e) == [entry |-> entryKey(e), stack |-> <<NewFrame(e)>>, ret |-> <<>>]

\* return v: the top call ends; its caller goes on with parentPath = v
returnPath(g, v) ==
    LET rest == SubSeq(g.stack, 1, Len(g.stack) - 1)
    IN  IF rest = <<>> THEN [g EXCEPT !.stack = <<>>, !.ret = v]
        ELSE [g EXCEPT !.stack =
                 [rest EXCEPT ![Len(rest)] =
                     [rest[Len(rest)] EXCEPT !.parentPath = v, !.at = "store"]]]

\* the entries of the loaded database
Entries == {Files[k] : k \in 1..Len(Files)} \cup {Folders[k] : k \in 1..Len(Folders)}

\* folders with names "" and "a" and parent indices 0 and 1 (a root, a child,
\* an index that names no folder, two folders that are each other's parent),
\* files "b" with parent indices 0 and 1 (a folder, or no folder when the
\* database has one folder)
PathFolders == {<<<<>>, 0>>, <<<<>>, 1>>, <<<<97>>, 0>>, <<<<97>>, 1>>}

PathFiles == {<<<<98>>, 0>>, <<<<98>>, 1>>}

PathInputs ==
    {Layout(0, deltaRecords(ds), deltaRecords(fs)) :
        ds \in UNION {[1..n -> PathFolders] : n \in 1..MaxFolders},
        fs \in UNION {[1..n -> PathFiles] : n \in 0..MaxFiles}}

InitPath ==
    /\ input \in PathInputs
    /\ file = fileBytes(input)
    /\ pc = "readHeader"
    /\ err = "ok"
    /\ IndexFlags = 0
    /\ Folders = <<>>
    /\ Files = <<>>
    /\ SortedArrays = <<>>
    /\ metadata = NoMetadata
    /\ pos = 0
    /\ block = <<>>
    /\ offset = 0
    /\ previousName = <<>>
    /\ loopI = 0
    /\ consumed = [folders |-> 0, files |-> 0]
    /\ opts = NoSearch
    /\ result = NoResult
    /\ pathCache = NoPaths
    /\ goroutines = <<>>
    /\ parentWalks = <<>>

\* e.GetFullPath() on an entry of the loaded database; result keeps the path,
\* or that the call does not return
GetFullPathCall ==
    /\ pc = "loaded"
    /\ opts = NoSearch
    /\ \E e \in Entries :
          /\ opts' = [op |-> "GetFullPath", entry |-> e]
          /\ result' = GetFullPath(e, Folders)
          /\ parentWalks' = Append(parentWalks, parentWalk(e, Folders))
    /\ UNCHANGED <<dbVars, loadVars, pc, pathCache, goroutines>>

\* a goroutine is started that calls db.getFullPathCached(e)
Go ==
    /\ pc = "loaded"
    /\ Len(goroutines) < Cardinality(GoroutineIds)
    /\ \E e \in Entries : goroutines' = Append(goroutines, NewGoroutine(e))
    /\ UNCHANGED <<dbVars, loadVars, searchVars, pc, pathCache, parentWalks>>

\* db.pathCache.Load(e): return the cached path, or go on to resolve it
CacheLoad(i) ==
    /\ pc = "loaded"
    /\ goroutines[i].stack # <<>>
    /\ LET g == goroutines[i]
           top == g.stack[Len(g.stack)]
           cached == cacheLoad(pathCache, entryKey(top.e))
       IN  /\ top.at = "load"
           /\ goroutines' =
                [goroutines EXCEPT ![i] =
                    IF cached.ok THEN returnPath(g, cached.value)
                    ELSE [g EXCEPT !.stack[Len(g.stack)].at =
                             IF top.e.Parent = Nil THEN "storeRoot" ELSE "loadParent"]]
    /\ UNCHANGED <<dbVars, loadVars, searchVars, pc, pathCache, parentWalks>>

\* an entry without parent: db.pathCache.Store(e, path); return path
StoreRoot(i) ==
    /\ pc = "loaded"
    /\ goroutines[i].stack # <<>>
    /\ LET g == goroutines[i]
           top == g.stack[Len(g.stack)]
       IN  /\ top.at = "storeRoot"
           /\ pathCache' = cacheStore(pathCache, entryKey(top.e), rootPath(top.e))
           /\ goroutines' = [goroutines EXCEPT ![i] = returnPath(g, rootPath(top.e))]
    /\ UNCHANGED <<dbVars, loadVars, searchVars, pc, parentWalks>>

\* db.pathCache.Load(e.Parent), and on a miss the recursive call
\* db.getFullPathCached(&e.Parent.Entry).  A recursion deeper than the number
\* of folders is on a cycle of parents: it does not end, and the runtime
\* stops the program when the stack is exhausted.
LoadParent(i) ==
    /\ pc = "loaded"
    /\ goroutines[i].stack # <<>>
    /\ LET g == goroutines[i]
           top == g.stack[Len(g.stack)]
           cached == cacheLoad(pathCache, folderKey(top.e.Parent))
       IN  /\ top.at = "loadParent"
           /\ IF cached.ok
                THEN /\ goroutines' =
                          [goroutines EXCEPT ![i].stack[Len(g.stack)] =
                              [top EXCEPT !.parentPath = cached.value, !.at = "store"]]
                     /\ UNCHANGED pc
              ELSE IF Len(g.stack) > Len(Folders)
                THEN /\ pc' = "stackOverflow"
                     /\ UNCHANGED goroutines
              ELSE /\ goroutines' =
                        [goroutines EXCEPT ![i].stack =
                            Append([g.stack EXCEPT ![Len(g.stack)].at = "call"],
                                   NewFrame(Folders[top.e.Parent + 1]))]
                   /\ UNCHANGED pc
    /\ UNCHANGED <<dbVars, loadVars, searchVars, pathCache, parentWalks>>

\* db.pathCache.Store(e, fullPath); return fullPath
StoreChild(i) ==
    /\ pc = "loaded"
    /\ goroutines[i].stack # <<>>
    /\ LET g == goroutines[i]
           top == g.stack[Len(g.stack)]
           fullPath == childPath(top.parentPath, top.e)
       IN  /\ top.at = "store"
           /\ pathCache' = cacheStore(pathCache, entryKey(top.e), fullPath)
           /\ goroutines' = [goroutines EXCEPT ![i] = returnPath(g, fullPath)]
    /\ UNCHANGED <<dbVars, loadVars, searchVars, pc, parentWalks>>

NextPath ==
    \/ NextLoad
    \/ GetFullPathCall
    \/ Go
    \/ \E i \in 1..Len(goroutines) :
          \/ CacheLoad(i)
          \/ StoreRoot(i)
          \/ LoadParent(i)
          \/ StoreChild(i)

SpecPath == InitPath /\ [][NextPath]_vars

(***************************************************************************)
(* SpecMatch: the matcher alone, applied to a candidate and a query.       *)
(***************************************************************************)
MaxTextLen == 3
MaxQueryLen == 2

\* 'a', 'A', ' ', '_'
TextAlphabet == {97, 65, 32, 95}

\* 'a', 'A', '*', '?'
QueryAlphabet == {97, 65, 42, 63}

Strings(alphabet, maxLen) == UNION {[1..n -> alphabet] : n \in 0..maxLen}

\* 'a', '.', '?', and '\n'
GlobTextAlphabet == {97, 46, 63, 10}

\* 'a', '.', '*', '?'
GlobQueryAlphabet == {97, 46, 42, 63}

\* 's', 'S', and the long s U+017F
FoldTextAlphabet == {115, 83, 383}

\* 's', 'S', '*'
FoldQueryAlphabet == {115, 83, 42}

\* <<candidate, query>> of TestMatchWholeWord, TestWildcardCaseSensitive and
\* TestSearch, and a candidate where the query occurs twice
TableInputs ==
    {<<<<116, 101, 115, 116, 32, 102, 105, 108, 101>>, <<116, 101, 115, 116>>>>,
     <<<<116, 101, 115, 116, 102, 105, 108, 101>>, <<116, 101, 115, 116>>>>,
     <<<<49, 50, 51, 116, 101, 115, 116>>, <<116, 101, 115, 116>>>>,
     <<<<116, 101, 115, 116, 105, 110, 103, 32, 116, 101, 115, 116>>, <<116, 101, 115, 116>>>>,
     <<<<116, 101, 115, 116, 46, 116, 120, 116>>, <<42, 46, 84, 88, 84>>>>,
     <<<<116, 101, 115, 116, 46, 116, 120, 116>>, <<84, 101, 115, 116>>>>}

MatchInputs ==
    (Strings(TextAlphabet, MaxTextLen) \X Strings(QueryAlphabet, MaxQueryLen))
    \cup (Strings(GlobTextAlphabet, MaxTextLen) \X Strings(GlobQueryAlphabet, MaxQueryLen))
    \cup (Strings(FoldTextAlphabet, MaxTextLen) \X Strings(FoldQueryAlphabet, MaxQueryLen))
    \cup TableInputs

InitMatch ==
    /\ \E in \in MatchInputs, cs \in BOOLEAN, ww \in BOOLEAN :
          opts = [op |-> "matches", text |-> in[1], Query |-> in[2],
                  CaseSensitive |-> cs, MatchWholeWord |-> ww]
    /\ pc = "call"
    /\ result = FALSE
    /\ input = Layout(0, <<>>, <<>>)
    /\ file = <<>>
    /\ err = "ok"
    /\ IndexFlags = 0
    /\ Folders = <<>>
    /\ Files = <<>>
    /\ SortedArrays = <<>>
    /\ metadata = NoMetadata
    /\ pos = 0
    /\ block = <<>>
    /\ offset = 0
    /\ previousName = <<>>
    /\ loopI = 0
    /\ consumed = [folders |-> 0, files |-> 0]
    /\ pathCache = NoPaths
    /\ goroutines = <<>>
    /\ parentWalks = <<>>

\* db.matches(text, query, opts) on an empty Database
MatchesCall ==
    /\ pc = "call"
    /\ LET r == matches(opts.text, opts.Query, opts)
       IN  IF r.panic
             THEN pc' = "panicked" /\ result' = FALSE
             ELSE pc' = "returned" /\ result' = r.ret
    /\ UNCHANGED <<dbVars, loadVars, opts, cacheVars>>

NextMatch == MatchesCall

SpecMatch == InitMatch /\ [][NextMatch]_vars

(***************************************************************************)
(* The claims.                                                             *)
(***************************************************************************)
EmptyResult == [Files |-> <<>>, Folders |-> <<>>]

\* C1: a Search with MaxResults = m > 0 returns at most m entries, files and
\* folders counted together.
C1_MaxResultsBoundsTotal ==
    (pc = "returned" /\ opts.op = "Search" /\ opts.MaxResults > 0)
        => Len(result.Files) + Len(result.Folders) <= opts.MaxResults

\* C2: Load returns no database for a file with a folder record whose parent
\* index is neither the folder's own index nor below the folder count.
C2_FolderParentValidated ==
    pc = "loaded"
        => \A k \in 1..Len(Folders) :
              \/ input.folders[k].parent = k - 1
              \/ input.folders[k].parent < Len(Folders)

\* C3: Load returns no database for a file with a file record whose parent
\* index is not below the folder count: every loaded File has a parent.
C3_FileParentValidated ==
    pc = "loaded"
        => \A k \in 1..Len(Files) :
              /\ input.files[k].parent < Len(Folders)
              /\ Files[k].Parent # Nil

\* the folder reached from folder f (or Nil) after the given number of
\* parent links
RECURSIVE Climb(_, _)
Climb(f, steps) ==
    IF f = Nil \/ steps = 0 THEN f ELSE Climb(Folders[f + 1].Parent, steps - 1)

\* C4: in a loaded database the parent links of the folders hold no cycle:
\* from every folder the links end at a root.
C4_NoParentCycle ==
    pc = "loaded"
        => \A f \in 0..(Len(Folders) - 1) : Climb(f, Len(Folders)) = Nil

\* C5: a Search with the empty query returns no file and no folder, whatever
\* the other options.
C5_EmptyQueryEmptyResult ==
    opts.op = "Search" /\ opts.Query = <<>>
        => pc = "returned" /\ result = EmptyResult

C5_Witness ==
    /\ pc = "returned" /\ opts.op = "Search" /\ opts.Query = <<>>
    /\ opts.SearchInFiles /\ opts.SearchInFolders /\ opts.MaxResults = 0
    /\ Len(Files) > 0 /\ Len(Folders) > 0

\* C6: a SearchByPath with the empty pattern returns no file and no folder,
\* case-sensitive or not.
C6_EmptyPatternEmptyResult ==
    (pc = "returned" /\ opts.op = "SearchByPath" /\ opts.Query = <<>>)
        => result = EmptyResult

\* C7: matches returns false for the empty query, for every candidate and
\* every combination of CaseSensitive and MatchWholeWord.
C7_EmptyQueryNeverMatches ==
    (pc # "call" /\ opts.op = "matches" /\ opts.Query = <<>>)
        => pc = "returned" /\ result = FALSE

\* the records decoded so far from each block
foldersDecoded ==
    IF pc = "folderLoop" THEN loopI
    ELSE IF pc \in {"loadFiles", "fileLoop", "loadSortedArrays", "loaded"}
      THEN Len(Folders)
    ELSE 0

filesDecoded ==
    IF pc = "fileLoop" THEN loopI
    ELSE IF pc \in {"loadSortedArrays", "loaded"} THEN Len(Files)
    ELSE 0

DeltaName(prev, r) == Take(prev, Min(r.p, Len(prev))) \o r.s

\* C8: the name decoded for a record is prev[0:min(p, len(prev))] + s, prev
\* being the name of the record before it in the same block and the empty
\* string for the first record of the folder block and of the file block.
C8_DeltaNames ==
    /\ \A k \in 1..foldersDecoded :
          Folders[k].Name =
              DeltaName(IF k = 1 THEN <<>> ELSE Folders[k - 1].Name, input.folders[k])
    /\ \A k \in 1..filesDecoded :
          Files[k].Name =
              DeltaName(IF k = 1 THEN <<>> ELSE Files[k - 1].Name, input.files[k])

\* a folder name cut short by its record's p, then a file block whose first
\* record has p > 0 after a last folder with a name
C8_Witness ==
    /\ pc = "loaded"
    /\ \E k \in 2..Len(Folders) : input.folders[k].p < Len(Folders[k - 1].Name)
    /\ Len(Folders) > 0 /\ Folders[Len(Folders)].Name # <<>>
    /\ Len(Files) > 0 /\ input.files[1].p > 0

\* C9: Load gets past a block only with the cursor at the declared block
\* size after the declared number of records, never reads past the block,
\* and returns no database for a file whose declared count or size is off.
C9_BlockSizesExact ==
    /\ pc \in {"folderLoop", "fileLoop"} => offset <= Len(block)
    /\ pc \in {"loadFiles", "fileLoop", "loadSortedArrays", "loaded"}
          => /\ consumed.folders = metadata.folderBlockSize
             /\ Len(Folders) = metadata.numFolders
    /\ pc \in {"loadSortedArrays", "loaded"}
          => /\ consumed.files = metadata.fileBlockSize
             /\ Len(Files) = metadata.numFiles
    /\ pc = "loaded" => input.dev = NoDeviation

C9_Witness ==
    pc = "loaded" /\ consumed.folders > 0 /\ consumed.files > 0

HeaderErrors ==
    {"TruncatedMagic", "BadMagic", "TruncatedMajorVersion",
     "UnsupportedMajorVersion", "TruncatedMinorVersion", "UnsupportedMinorVersion"}

\* C10: a header is accepted iff its magic is the signature, its major
\* version the supported one and its minor version at most the supported
\* one; a wrong magic is reported first, then a wrong major version.
C10_HeaderValidation ==
    (pc # "readHeader" /\ Len(file) >= 6)
        => /\ ~(pc = "failed" /\ err \in HeaderErrors)
                <=> /\ input.magic = MagicNumber
                    /\ input.major = MajorVersion
                    /\ input.minor <= MinorVersion
           /\ input.magic # MagicNumber => pc = "failed" /\ err = "BadMagic"
           /\ (input.magic = MagicNumber /\ input.major # MajorVersion)
                => pc = "failed" /\ err = "UnsupportedMajorVersion"
           /\ (input.magic = MagicNumber /\ input.major = MajorVersion
               /\ input.minor > MinorVersion)
                => pc = "failed" /\ err = "UnsupportedMinorVersion"

\* a header of an older minor version, accepted
C10_Witness ==
    pc = "readMetadata" /\ input.minor > 0 /\ input.minor < MinorVersion

\* the parent links of the folders hold no cycle
IsHierarchy == \A f \in 0..(Len(Folders) - 1) : Climb(f, Len(Folders)) = Nil

\* C11: for an entry with a parent, in a hierarchy without cycle, GetFullPath
\* gives the parent's path, a "/" and the entry's name, the "/" left out when
\* the parent's path is "/"; also below an ancestor with an empty name that
\* is not a root.
C11_PathFromParent ==
    (opts.op = "GetFullPath" /\ opts.entry.Parent # Nil /\ IsHierarchy) =>
        LET parentPath == GetFullPath(Folders[opts.entry.Parent + 1], Folders).path
        IN  result.path =
                IF parentPath = <<Slash>> THEN <<Slash>> \o opts.entry.Name
                ELSE parentPath \o <<Slash>> \o opts.entry.Name

\* the entry a key of the path cache points to
EntryOf(key) == CHOOSE e \in Entries : entryKey(e) = key

ParentlessPathRule(e, path) ==
    /\ path = <<Slash>> <=> e.Name = <<>>
    /\ e.Name # <<>> => path = e.Name

\* C12: the path of an entry without parent is "/" iff its name is empty, and
\* is its bare name when the name is not empty; for GetFullPath and for
\* getFullPathCached.
C12_ParentlessPath ==
    /\ (opts.op = "GetFullPath" /\ opts.entry.Parent = Nil) =>
          ~result.diverges /\ ParentlessPathRule(opts.entry, result.path)
    /\ \A i \in 1..Len(goroutines) :
          (goroutines[i].stack = <<>> /\ EntryOf(goroutines[i].entry).Parent = Nil) =>
              ParentlessPathRule(EntryOf(goroutines[i].entry), goroutines[i].ret)
    /\ \A key \in DOMAIN pathCache :
          EntryOf(key).Parent = Nil => ParentlessPathRule(EntryOf(key), pathCache[key])

\* both calls have returned the bare name of a parentless entry with a name
C12_Witness ==
    /\ opts.op = "GetFullPath"
    /\ opts.entry.Parent = Nil
    /\ opts.entry.Name # <<>>
    /\ result.path = opts.entry.Name
    /\ \E i \in 1..Len(goroutines) :
          /\ goroutines[i].stack = <<>>
          /\ goroutines[i].entry = entryKey(opts.entry)
          /\ goroutines[i].ret = opts.entry.Name

\* C13: after SearchByPath has resolved the path of an entry, the paths of
\* its ancestors are in db.pathCache, and resolving an entry with the same
\* parent later follows no Parent link of a folder.
C13_SiblingsWalkNothingAbove ==
    (opts.op = "SearchByPath" /\ pc = "returned") =>
        /\ \A k \in 1..Len(parentWalks) :
              parentWalks[k].parent # Nil =>
                  <<"*Entry", EntryTypeFolder, parentWalks[k].parent>> \in DOMAIN pathCache
        /\ \A j \in 1..Len(parentWalks) : \A k \in 1..(j - 1) :
              (parentWalks[k].parent # Nil /\ parentWalks[k].parent = parentWalks[j].parent)
                  => parentWalks[j].from = <<>>

SequentialPath(e) == getFullPathCached(e, Folders, 0)

CacheHoldsPaths ==
    \A key \in DOMAIN pathCache :
        /\ \E e \in Entries : entryKey(e) = key
        /\ ~SequentialPath(EntryOf(key)).diverges
        /\ pathCache[key] = SequentialPath(EntryOf(key)).path

CallsReturnPaths ==
    \A i \in 1..Len(goroutines) :
        goroutines[i].stack = <<>> =>
            /\ ~SequentialPath(EntryOf(goroutines[i].entry)).diverges
            /\ goroutines[i].ret = SequentialPath(EntryOf(goroutines[i].entry)).path

CacheOnlyGrows ==
    \A key \in DOMAIN pathCache :
        key \in DOMAIN pathCache' /\ pathCache'[key] = pathCache[key]

\* C14: under every interleaving of goroutines calling getFullPathCached, a
\* call returns the path a call running alone returns, every value in
\* db.pathCache is the path of its entry, and no step removes a key of the
\* cache or changes its value.
C14_ConcurrentCacheConsistent ==
    [](CacheHoldsPaths /\ CallsReturnPaths) /\ [][CacheOnlyGrows]_vars

\* a goroutine has started and returned the path of an entry while another,
\* resolving an entry with the same parent, is between its Load and its Store
C14_Witness ==
    \E i, j \in 1..Len(goroutines) :
        /\ goroutines[i].stack = <<>>
        /\ Len(goroutines[j].stack) = 1
        /\ goroutines[j].stack[1].at = "store"
        /\ goroutines[j].entry # goroutines[i].entry
        /\ EntryOf(goroutines[j].entry).Parent # Nil
        /\ EntryOf(goroutines[j].entry).Parent = EntryOf(goroutines[i].entry).Parent
        /\ goroutines[i].entry \in DOMAIN pathCache
        /\ goroutines[j].entry \notin DOMAIN pathCache

\* the query holds a '*' or a '?'
IsWildcardQuery(q) == \E k \in 1..Len(q) : q[k] \in {Star, Question}

MatcherCalled == opts.op = "matches" /\ pc # "call"

\* C15: for a query with '*' or '?' the matcher returns the same value with
\* and without match_whole_word.
C15_WildcardIgnoresWholeWord ==
    (MatcherCalled /\ IsWildcardQuery(opts.Query)) =>
        /\ pc = "returned"
        /\ result = matches(opts.text, opts.Query,
                            [opts EXCEPT !.MatchWholeWord = ~opts.MatchWholeWord]).ret

\* a '?' query matched with match_whole_word set, on a candidate in which
\* the '?' also occurs inside a word
C15_Witness ==
    /\ MatcherCalled
    /\ opts.Query = <<Question, Question>>
    /\ opts.text = <<97, Question>>
    /\ opts.MatchWholeWord
    /\ result = TRUE

\* glob matching of the whole candidate: '*' any run of characters, '?' any
\* one character, every other character itself
RECURSIVE GlobMatch(_, _)
GlobMatch(text, pattern) ==
    IF pattern = <<>> THEN text = <<>>
    ELSE IF Head(pattern) = Star
      THEN GlobMatch(text, Tail(pattern))
           \/ (text # <<>> /\ GlobMatch(Tail(text), pattern))
    ELSE IF Head(pattern) = Question
      THEN text # <<>> /\ GlobMatch(Tail(text), Tail(pattern))
    ELSE text # <<>> /\ Head(text) = Head(pattern)
         /\ GlobMatch(Tail(text), Tail(pattern))

\* C16: a case-sensitive wildcard query matches as a glob on the whole
\* candidate, '*' and '?' standing for any character and every other
\* character for itself.
C16_WildcardIsGlob ==
    (MatcherCalled /\ IsWildcardQuery(opts.Query) /\ opts.CaseSensitive) =>
        pc = "returned" /\ result = GlobMatch(opts.text, opts.Query)

WordChar(c) ==
    c \in 65..90 \/ c \in 97..122 \/ c \in 48..57 \/ c = 95 \/ c \in {383, 8490}

\* the query occurs at some offset between two word boundaries
WholeWordOccurs(text, query) ==
    \E i \in 0..(Len(text) - Len(query)) :
        /\ SubSeq(text, i + 1, i + Len(query)) = query
        /\ (i = 0 \/ ~WordChar(text[i]))
        /\ (i + Len(query) = Len(text) \/ ~WordChar(text[i + Len(query) + 1]))

\* C17: for a non-empty query without wildcards and match_whole_word set, the
\* matcher returns true iff the query occurs somewhere in the candidate
\* between two word boundaries (both lowered when case is ignored).
C17_WholeWordBoundaries ==
    (MatcherCalled /\ opts.MatchWholeWord /\ opts.Query # <<>>
        /\ ~IsWildcardQuery(opts.Query)) =>
        /\ pc = "returned"
        /\ result = IF opts.CaseSensitive
                       THEN WholeWordOccurs(opts.text, opts.Query)
                       ELSE WholeWordOccurs(ToLower(opts.text), ToLower(opts.Query))

\* "testing test" / "test": the first occurrence is inside a word, a later
\* one is a whole word
C17_Witness ==
    /\ MatcherCalled
    /\ opts.MatchWholeWord
    /\ opts.Query = <<116, 101, 115, 116>>
    /\ Len(opts.text) = 12
    /\ result = TRUE

\* the lower and the upper case of a letter
CaseForms(c) ==
    IF c \in 65..90 THEN {c, c + 32}
    ELSE IF c \in 97..122 THEN {c, c - 32}
    ELSE IF c = 383 THEN {383, 83}
    ELSE {c}

\* the strings that differ from s in the case of letters only
RECURSIVE CaseVariants(_)
CaseVariants(s) ==
    IF s = <<>> THEN {<<>>}
    ELSE {<<c>> \o t : c \in CaseForms(Head(s)), t \in CaseVariants(Tail(s))}

\* C18: with case_sensitive unset the value returned does not change when the
\* case of letters of the candidate or of the query changes, in each of the
\* three modes; with case_sensitive set a match needs the query's letters in
\* the same case.
C18_CaseHandlingUniform ==
    (MatcherCalled /\ pc = "returned" /\ opts.Query # <<>>) =>
        IF opts.CaseSensitive
          THEN result =>
                 IF IsWildcardQuery(opts.Query) THEN GlobMatch(opts.text, opts.Query)
                 ELSE \E i \in 0..(Len(opts.text) - Len(opts.Query)) :
                          SubSeq(opts.text, i + 1, i + Len(opts.Query)) = opts.Query
          ELSE /\ \A t \in CaseVariants(opts.text) :
                     matches(t, opts.Query, opts).ret = result
               /\ \A q \in CaseVariants(opts.Query) :
                     matches(opts.text, q, opts).ret = result

\* the indices of the entries whose bare name the matcher accepts, in the
\* order of the array
MatchingIndices(entries, o) ==
    LET kept == SelectSeq(entries, LAMBDA e : matches(e.Name, o.Query, o).ret)
    IN  [k \in 1..Len(kept) |-> kept[k].Index]

\* C19: with MaxResults = 0 and a non-empty query, Search returns in Files
\* the files whose bare name matches, each once and in the order of
\* db.Files, and in Folders the folders whose bare name matches, in the order
\* of db.Folders, for each collection that is searched.
C19_SearchReturnsAllMatches ==
    (opts.op = "Search" /\ opts.MaxResults = 0 /\ opts.Query # <<>>) =>
        /\ pc = "returned"
        /\ opts.SearchInFiles => result.Files = MatchingIndices(Files, opts)
        /\ opts.SearchInFolders => result.Folders = MatchingIndices(Folders, opts)

\* several files and a folder are returned, and other files and folders
\* are not
C19_Witness ==
    /\ opts.op = "Search"
    /\ opts.MaxResults = 0
    /\ pc = "returned"
    /\ Len(result.Files) >= 2
    /\ Len(result.Files) < Len(Files)
    /\ Len(result.Folders) >= 1
    /\ Len(result.Folders) < Len(Folders)

\* C20: Search returns no folder when SearchInFolders is unset and no file
\* when SearchInFiles is unset; SearchByPath returns the files and the
\* folders whose path holds the pattern.
C20_CollectionsRestricted ==
    /\ (opts.op = "Search" /\ pc = "returned") =>
          /\ ~opts.SearchInFiles => result.Files = <<>>
          /\ ~opts.SearchInFolders => result.Folders = <<>>
    /\ (opts.op = "SearchByPath" /\ pc = "returned" /\ opts.CaseSensitive
            /\ ~IsWildcardQuery(opts.Query)) =>
          /\ \A k \in 1..Len(Files) :
                Contains(GetFullPath(Files[k], Folders).path, opts.Query)
                    => \E j \in 1..Len(result.Files) : result.Files[j] = Files[k].Index
          /\ \A k \in 1..Len(Folders) :
                Contains(GetFullPath(Folders[k], Folders).path, opts.Query)
                    => \E j \in 1..Len(result.Folders) : result.Folders[j] = Folders[k].Index

\* a Search of the files alone has returned a file while a folder's name
\* matches the query too
C20_Witness ==
    /\ opts.op = "Search"
    /\ pc = "returned"
    /\ opts.SearchInFiles
    /\ ~opts.SearchInFolders
    /\ result.Files # <<>>
    /\ \E k \in 1..Len(Folders) : matches(Folders[k].Name, opts.Query, opts).ret

\* the indices of the entries on whose full path the matcher, without
\* match_whole_word, returns true
PathMatchingIndices(entries, pattern, cs) ==
    LET o == [Query |-> pattern, CaseSensitive |-> cs, MatchWholeWord |-> FALSE]
        kept == SelectSeq(entries,
                          LAMBDA e : matches(GetFullPath(e, Folders).path, pattern, o).ret)
    IN  [k \in 1..Len(kept) |-> kept[k].Index]

\* C21: for a non-empty pattern SearchByPath returns the files and the
\* folders on whose full path matches(), with the same case_sensitive and
\* without match_whole_word, returns true.
C21_SearchByPathIsMatcherOnPath ==
    (opts.op = "SearchByPath" /\ pc = "returned" /\ opts.Query # <<>>) =>
        /\ result.Files = PathMatchingIndices(Files, opts.Query, opts.CaseSensitive)
        /\ result.Folders = PathMatchingIndices(Folders, opts.Query, opts.CaseSensitive)

\* a search that ignores case has kept an entry whose path holds the
\* pattern in the other case, and has left out another entry
C21_Witness ==
    /\ opts.op = "SearchByPath"
    /\ pc = "returned"
    /\ opts.Query = <<66>>
    /\ ~opts.CaseSensitive
    /\ \E k \in 1..Len(Files) :
          /\ Contains(Files[k].Name, <<98>>)
          /\ Files[k].Index \in {result.Files[j] : j \in 1..Len(result.Files)}
    /\ Len(result.Folders) < Len(Folders)

\* the loaded time is the time t of the data
SameTime(loaded, t) == loaded = UnixTime(t.sec) /\ t.nsec = 0

\* the loaded entry holds the fields of the entry d written at index k
SameEntry(e, d, k, isFolder) ==
    /\ e.Name = d.name
    /\ HasFlag(IndexFlags, IndexFlagSize) => e.Size = d.size
    /\ HasFlag(IndexFlags, IndexFlagModificationTime) => SameTime(e.MTime, d.mtime)
    /\ e.Parent = IF isFolder /\ d.parentIdx = k THEN Nil ELSE d.parentIdx

\* C22: Load of a file the generator wrote from data with a valid parent
\* tree succeeds and gives as many folders and files as the data, each with
\* the name, the size, the modification time and the parent of the data,
\* for the fields the index flags hold.
C22_RoundTrip ==
    (pc \in {"loaded", "failed"} /\ "data" \in DOMAIN input) =>
        /\ pc = "loaded"
        /\ Len(Folders) = Len(input.data.folders)
        /\ Len(Files) = Len(input.data.files)
        /\ \A k \in 1..Len(Folders) :
              SameEntry(Folders[k], input.data.folders[k], k - 1, TRUE)
        /\ \A k \in 1..Len(Files) :
              SameEntry(Files[k], input.data.files[k], k - 1, FALSE)

\* C23: after Load has returned, no step of Search, SearchByPath, the path
\* resolution they do, sortResults or the return to the caller changes
\* IndexFlags, Folders, Files or SortedArrays.
C23_DatabaseUnchangedAfterLoad ==
    [][(pc \in {"loaded", "returned", "sorted"})
          => (<<IndexFlags, Folders, Files, SortedArrays>>' =
                 <<IndexFlags, Folders, Files, SortedArrays>>)]_vars

\* C23: sortResults has reordered the files of a result, so that they are no
\* longer in the order of the database's array
C23_Witness ==
    /\ pc = "sorted"
    /\ \E i, j \in 1..Len(result.Files) : i < j /\ result.Files[i] > result.Files[j]

\* the values idx takes in the loop of matchWholeWord, in order
RECURSIVE scanPositions(_, _, _)
scanPositions(text, query, idx) ==
    IF idx > Len(text) THEN <<idx>>
    ELSE LET found == Index(SliceFrom(text, idx), query)
             at == found + idx
             before == at = 0 \/ ~IsWordRune(text[at])
             after == at + Len(query) = Len(text)
                      \/ ~IsWordRune(text[at + Len(query) + 1])
         IN  IF found = -1 \/ (before /\ after) THEN <<idx>>
             ELSE <<idx>> \o scanPositions(text, query, at + 1)

\* the strings matchWholeWord receives from the Search in opts, for a name
WholeWordText(name) == IF opts.CaseSensitive THEN name ELSE ToLower(name)

WholeWordQuery == IF opts.CaseSensitive THEN opts.Query ELSE ToLower(opts.Query)

ScanInBounds(text, query) ==
    LET idxs == scanPositions(text, query, 0)
    IN  /\ \A k \in 1..Len(idxs) : 0 <= idxs[k] /\ idxs[k] <= Len(text)
        /\ \A k \in 1..(Len(idxs) - 1) : idxs[k] < idxs[k + 1]

SearchedNames ==
    {Files[k].Name : k \in 1..Len(Files)} \cup {Folders[k].Name : k \in 1..Len(Folders)}

\* C24: a Search with a non-empty query returns a result, and in whole-word
\* matching the scan position stays within 0..len(text) and strictly increases.
C24_SearchNeverFails ==
    (pc \in {"returned", "panicked"} /\ opts.op = "Search" /\ opts.Query # <<>>)
        => /\ pc = "returned"
           /\ (opts.MatchWholeWord /\ ~hasWildcards(opts.Query))
                 => \A name \in SearchedNames :
                       ScanInBounds(WholeWordText(name), WholeWordQuery)

\* C24: a whole-word Search has returned after a scan that went on past an
\* occurrence that is no whole word, up to the end of the name
C24_Witness ==
    /\ pc = "returned"
    /\ opts.op = "Search"
    /\ opts.Query # <<>>
    /\ opts.MatchWholeWord
    /\ ~hasWildcards(opts.Query)
    /\ \E name \in SearchedNames :
          LET idxs == scanPositions(WholeWordText(name), WholeWordQuery, 0)
          IN  Len(idxs) >= 2 /\ idxs[Len(idxs)] = Len(name)

\* the order of the sort field on two emitted entries
FieldLess(field, a, b) ==
    CASE field = "name" -> stringLess(a.Name, b.Name)
      [] field = "path" -> stringLess(GetFullPath(a, Folders).path, GetFullPath(b, Folders).path)
      [] field = "mtime" -> timeBefore(a.MTime, b.MTime)

\* C25: after sorting by name, path or mtime, the emitted sequence of
\* results, files and folders combined, is in non-decreasing order of the field.
C25_EmittedSortedTogether ==
    (pc = "sorted" /\ opts.field \in {"name", "path", "mtime"})
        => LET out == printResults(result, Files, Folders)
           IN  \A i, j \in 1..Len(out) : i < j => ~FieldLess(opts.field, out[j], out[i])


\* the first n elements of s, all of s if it has fewer
FirstOf(s, n) == Take(s, Min(n, Len(s)))

\* C26: with MaxResults = m > 0 and both collections searched, Files are the
\* first min(m, k) matching files in array order, and Folders are the first
\* matching folders for the capacity m - len(Files) that remains: none when
\* m files have matched.
C26_MaxResultsFileBiased ==
    (pc = "returned" /\ opts.op = "Search" /\ opts.Query # <<>> /\ opts.MaxResults > 0
        /\ opts.SearchInFiles /\ opts.SearchInFolders)
        => /\ result.Files = FirstOf(MatchingIndices(Files, opts), opts.MaxResults)
           /\ result.Folders = FirstOf(MatchingIndices(Folders, opts),
                                       opts.MaxResults - Len(result.Files))


\* bit 2 and bit 3 of the index flags
SizeIndexed == (IndexFlags \div 4) % 2 = 1

MTimeIndexed == (IndexFlags \div 8) % 2 = 1

\* the bytes of a record whose name header stands at byte `name` of the
\* block, from that header to the end of the record
RecordTail(name) ==
    2 + block[name + 2] + (IF SizeIndexed THEN 8 ELSE 0)
      + (IF MTimeIndexed THEN 8 ELSE 0) + 4

\* the size and mtime an entry must have after its record was decoded
FieldsDecoded(entry, name) ==
    LET sizeAt == name + 2 + block[name + 2]
        mtimeAt == IF SizeIndexed THEN sizeAt + 8 ELSE sizeAt
    IN  /\ entry.Size = IF SizeIndexed THEN Int64(block, sizeAt) ELSE 0
        /\ entry.MTime = IF MTimeIndexed THEN UnixTime(Int64(block, mtimeAt)) ELSE ZeroTime

\* C27: a folder record consumes 2 + 2 + suffix length + 8 if bit 2 of the
\* index flags is set + 8 if bit 3 is set + 4 bytes, a file record the same
\* without the first 2; size and mtime are the decoded values when their flag
\* is set and zero-valued when not; no other flag bit changes the count.
C27_RecordLayout ==
    [][/\ (pc = "folderLoop" /\ loopI' = loopI + 1)
            => /\ offset' - offset = 2 + RecordTail(offset + 2)
               /\ FieldsDecoded(Folders'[loopI + 1], offset + 2)
       /\ (pc = "fileLoop" /\ loopI' = loopI + 1)
            => /\ offset' - offset = RecordTail(offset)
               /\ FieldsDecoded(Files'[loopI + 1], offset)]_vars

\* C27: a database is loaded whose flags set bit 2, leave bit 3 clear and
\* set bits that name no record field; its entries have their sizes and the
\* zero mtime
C27_Witness ==
    /\ pc = "loaded"
    /\ SizeIndexed /\ ~MTimeIndexed
    /\ IndexFlags \div 16 > 0
    /\ Len(Folders) > 0 /\ Len(Files) > 0
    /\ \E k \in 1..Len(Folders) : Folders[k].Size # 0
    /\ \A k \in 1..Len(Files) : Files[k].MTime = ZeroTime


HasPrefix(s, prefix) == Len(s) >= Len(prefix) /\ SubSeq(s, 1, Len(prefix)) = prefix

\* a pattern P + "/*" with no wildcard in P
IsSubtreePattern(q) ==
    /\ Len(q) >= 2
    /\ SubSeq(q, Len(q) - 1, Len(q)) = <<Slash, Star>>
    /\ ~hasWildcards(Take(q, Len(q) - 2))

SubtreeOf(q) == Take(q, Len(q) - 2)

Returned(found, e) == \E j \in 1..Len(found) : found[j] = e.Index

\* what C28 asks of the result for one collection of entries
SubtreeMatched(entries, found, P) ==
    \A k \in 1..Len(entries) :
        LET path == GetFullPath(entries[k], Folders).path
        IN  /\ HasPrefix(path, P \o <<Slash>>) => Returned(found, entries[k])
            /\ path = P => ~Returned(found, entries[k])

\* "/home/*"
HomeStar == <<Slash, 104, 111, 109, 101, Slash, Star>>

FixtureLoaded ==
    input = Layout(FixtureFlags, deltaRecords(FixtureFolders), deltaRecords(FixtureFiles))

\* C28: in SearchByPath a pattern P + "/*" matches every entry whose full
\* path starts with P + "/", at any depth, and not the entry whose path is P;
\* on the fixture "/home/*" returns exactly the folder /home/user and its two
\* files.
C28_StarCrossesSlash ==
    (pc = "returned" /\ opts.op = "SearchByPath" /\ IsSubtreePattern(opts.Query))
        => /\ SubtreeMatched(Files, result.Files, SubtreeOf(opts.Query))
           /\ SubtreeMatched(Folders, result.Folders, SubtreeOf(opts.Query))
           /\ (FixtureLoaded /\ opts.Query = HomeStar)
                 => result = [Files |-> <<0, 1>>, Folders |-> <<2>>]


\* C29: for every entry of a loaded database (its parent links without
\* cycle), getFullPathCached returns, and stores in the cache, the string
\* Entry.GetFullPath returns; also where a folder with an empty name is not a
\* root and where a root has a name.
C29_CachedEqualsUncached ==
    (pc = "loaded" /\ IsHierarchy) =>
        /\ \A i \in 1..Len(goroutines) :
              goroutines[i].stack = <<>> =>
                  goroutines[i].ret = GetFullPath(EntryOf(goroutines[i].entry), Folders).path
        /\ \A key \in DOMAIN pathCache :
              pathCache[key] = GetFullPath(EntryOf(key), Folders).path


\* C30: after a successful Load the database holds as many sorted arrays as
\* the file declares, each with one index per folder and one per file, also
\* when array IDs repeat in the file.
C30_SortedArrayCount ==
    pc = "loaded" =>
        /\ Cardinality(DOMAIN SortedArrays) = Len(input.sorted)
        /\ \A id \in DOMAIN SortedArrays :
              /\ Len(SortedArrays[id].Folders) = Len(Folders)
              /\ Len(SortedArrays[id].Files) = Len(Files)

====
